---- MODULE Spec2Model ----
(***************************************************************************)
(* Retrieval core of creator-chatbot: the single-process retriever         *)
(* (src/src/retrieval.py, src/src/embeddings.py, src/src/vector_store.py,  *)
(* src/src/chunking.py) and the service retriever                          *)
(* (src/scalable_chatbot/retrieval_service/retrieval.py).                  *)
(*                                                                         *)
(* Text is a sequence of one-character strings, so that substring tests,   *)
(* split() and strip() are computed the way Python computes them.          *)
(* Time is counted in seconds; similarity, distance and certainty are      *)
(* scaled by 100 (1.0 is 100).                                             *)
(***************************************************************************)
EXTENDS Integers, Sequences, FiniteSets, TLC

VARIABLES
    \* ---- the caller's position
    op,                 \* operation in progress: "none", "retrieve", "embed", "embed_batch",
                        \* "embed_chunks", "chunk"
    impl,               \* "single" (src/src) or "scalable" (retrieval_service)
    pc,                 \* position inside the operation
    \* ---- arguments and locals of the call in progress
    query,              \* the query / the text handed to embed_text
    owner,              \* creator_id
    analysis,           \* query analysis (scalable: QueryAnalysis, single: query types)
    strategy,
    embRet,             \* what embed_text handed back: NoRet, Ok(vec) or Err(e)
    result,             \* what the operation handed to its caller
    \* ---- instrumentation of one call
    outcomes,           \* what each genai.embed_content call of the embed_text call
                        \* in progress did, in order
    searchCalls,        \* store searches made by the call in progress
    storeRet,           \* what the store search did: None, "ok" or "failed"
    sleeps,             \* time.sleep(retry_delay) waits of the call in progress, in order
    \* ---- GeminiEmbedder
    attempt,
    retry_delay,
    embedding_dimension,
    \* ---- GeminiEmbedder.embed_batch
    texts,
    batch_size,
    bi,                 \* start index of the current batch (0-based, as in range())
    bj,                 \* items of the current batch already embedded
    embeddings,
    batch_embeddings,
    pauses,             \* time.sleep(0.1) pauses taken
    \* ---- IntelligentRetriever (single) and the clock
    time_since_last_query,  \* time.time() - last_query_time, counted up to min_query_interval
    throttled,          \* seconds retrieve_context slept before the call in progress
    \* ---- CreatorVectorStore / vector backend
    backend,            \* vector backend: owner -> None or the records of its collection
    collections,        \* keys of CreatorVectorStore.collections
    \* ---- a caller of the store (add_chunk, search_creator,
    \*      get_collection_stats)
    sop,                \* store operation in progress
    spc,                \* position inside it
    sarg,               \* its arguments
    sret,               \* what it handed to its caller
    snap,               \* the owner's collection as it was when add_chunk was called
    sfailed,            \* a backend call of the operation in progress failed
    \* ---- a second thread, calling reset()
    rpc,                \* position inside reset
    rtodo,              \* reset: the listed collections not yet deleted
    rret,               \* what reset handed to its caller
    rfailed,            \* a backend call of the reset in progress failed
    \* ---- history of the store
    failed,             \* some backend call has failed since construction
    sinceReset,         \* "fresh" once a reset has returned, "one_add" once one
                        \* add_chunk has been called since, then "more";
                        \* "unknown" otherwise
    \* ---- SmartChunker
    chunk_size,
    overlap,
    sentences,          \* the sentences the loop of _create_semantic_chunks has
                        \* taken from its argument so far
    current_chunk,
    chunks,
    firsts,             \* per closed chunk: the sentence it was started with
    first,              \* the sentence the current chunk was started with
    doc,                \* the text handed to chunk_text
    todo,               \* chunk_text: the sentences the loop has not reached yet
    \* ---- query classification (QueryAnalyzer, ChatProcessor)
    cop,                \* classifier in progress: "none", "fallback", "simple",
                        \* "analyze_query", "determine_complexity", "single"
    cpc,                \* position inside it
    cquery,             \* the query handed to it
    cmodel,             \* analyze_query: what the generative model did
    cret,               \* what the classifier handed to its caller
    \* ---- build_vector_database (src/build_vector_database.py)
    ipc,                \* position inside build_vector_database
    files,              \* load_creator_content: the files not yet read
    content,            \* the loaded items not yet processed
    pending,            \* the chunks of the item in progress not yet processed
    content_files,      \* load_creator_content: the files glob found
    attempts,           \* the chunks the loop has tried, in order, each with
                        \* whether embed_text and add_chunk both returned
    iret,               \* what build_vector_database handed to its caller
    \* ---- the singleton constructors (src/src/retrieval.py:8-31,
    \*      src/src/vector_store.py:8-43)
    cls,                \* the class the threads construct
    cls_instance,       \* cls._instance: 0 for None, or the object held
    created,            \* objects super().__new__(cls) has made so far
    initialized,        \* object -> its _initialized attribute
    bodies,             \* object -> times the body of __init__ was entered on it
    tpc,                \* thread -> its position inside cls()
    tself,              \* thread -> the object __new__ handed to it, 0 before
    \* ---- retrieve_context called by two threads (src/src/retrieval.py:44-53)
    now,                \* time.time(), in seconds
    last_query_time,    \* self.last_query_time
    qpc,                \* thread -> its position inside retrieve_context
    current_time,       \* thread -> its local current_time
    wake,               \* thread -> the time its time.sleep ends
    work_starts,        \* the times at which a call went on to its work, in order
    \* ---- the gateway's CircuitBreaker (api_gateway/main.py:136-174) for
    \*      "chat_service", and the chat_proxy requests that use it
    state,              \* self.state["chat_service"]
    failure_count,      \* self.failure_count["chat_service"]
    last_failure_time,  \* self.last_failure_time["chat_service"]
    gateway_time,       \* time.time() of the gateway, in seconds
    gpc,                \* request -> its position inside chat_proxy
    streak,             \* failures recorded since the last recorded success
    reopened,           \* a failure was recorded while the circuit was half-open
    \* ---- RateLimiter.check_rate_limit (api_gateway/main.py:82-132,
    \*      chat_service/main.py:53-81) for one key, called by the workers
    counter,            \* the value Redis holds for the key, 0 for no key
    lpc,                \* worker -> its position inside check_rate_limit
    current,            \* worker -> what its redis_client.get(key) returned
    allowed,            \* calls answered as allowed in this window
    denied              \* calls answered as not allowed in this window

retrVars  == <<op, impl, pc, query, owner, analysis, strategy, embRet, result,
               outcomes, searchCalls, storeRet, sleeps>>
embVars   == <<attempt, retry_delay, embedding_dimension>>
batchVars == <<texts, batch_size, bi, bj, embeddings, batch_embeddings, pauses>>
clockVars == <<time_since_last_query, throttled>>
storeVars == <<backend, collections, sop, spc, sarg, sret, snap, sfailed,
               rpc, rtodo, rret, rfailed, failed, sinceReset>>
chunkVars == <<chunk_size, overlap, sentences, current_chunk, chunks, firsts, first,
               doc, todo>>
classVars == <<cop, cpc, cquery, cmodel, cret>>
ingestVars == <<ipc, content_files, files, content, pending, attempts, iret>>
singVars  == <<cls, cls_instance, created, initialized, bodies, tpc, tself>>
throttleVars == <<now, last_query_time, qpc, current_time, wake, work_starts>>
breakerVars == <<state, failure_count, last_failure_time, gateway_time, gpc,
                 streak, reopened>>
limiterVars == <<counter, lpc, current, allowed, denied>>
concVars  == <<singVars, throttleVars, breakerVars, limiterVars>>
limiterRest == <<retrVars, embVars, batchVars, clockVars, storeVars, chunkVars,
                 classVars, ingestVars, singVars, throttleVars, breakerVars>>
singRest  == <<retrVars, embVars, batchVars, clockVars, storeVars, chunkVars,
               classVars, ingestVars, throttleVars, breakerVars, limiterVars>>
throttleRest == <<retrVars, embVars, batchVars, clockVars, storeVars, chunkVars,
                  classVars, ingestVars, singVars, breakerVars, limiterVars>>
breakerRest == <<retrVars, embVars, batchVars, clockVars, storeVars, chunkVars,
                 classVars, ingestVars, singVars, throttleVars, limiterVars>>
extVars   == <<classVars, ingestVars, concVars>>
seqVars   == <<retrVars, embVars, batchVars, clockVars, storeVars, chunkVars,
               classVars, ingestVars>>
baseVars  == <<retrVars, embVars, batchVars, clockVars, storeVars, chunkVars>>
classRest == <<baseVars, ingestVars, concVars>>
vars == <<retrVars, embVars, batchVars, clockVars, storeVars, chunkVars, extVars>>

-----------------------------------------------------------------------------
(* Python's None.  TLC compares a string with a sequence of the same length
   element by element, so the value is longer than any collection here. *)

None == "None, Python's null object"

-----------------------------------------------------------------------------
(* Bounds of the model *)

MaxTexts == 3
MaxBatch == 2

-----------------------------------------------------------------------------
(* Python string helpers *)

Min(a, b) == IF a < b THEN a ELSE b
Abs(a) == IF a < 0 THEN -a ELSE a

IsSpace(c) == c \in {" ", "\n", "\t"}

LowerChar(c) == CASE c = "H" -> "h" [] c = "S" -> "s" [] OTHER -> c

Lower(s) == [k \in 1..Len(s) |-> LowerChar(s[k])]

\* Python's `sub in s`
Contains(s, sub) ==
    \E k \in 1..(Len(s) - Len(sub) + 1) : SubSeq(s, k, k + Len(sub) - 1) = sub

\* a strip() that is left out
Strip_Identity(s) == s

\* str.strip()
Strip(s) ==
    LET nonSpace == {k \in 1..Len(s) : ~IsSpace(s[k])}
    IN  IF nonSpace = {} THEN <<>>
        ELSE LET lo == CHOOSE k \in nonSpace : \A m \in nonSpace : k <= m
                 hi == CHOOSE k \in nonSpace : \A m \in nonSpace : k >= m
             IN  SubSeq(s, lo, hi)

\* str.split() with no argument: maximal runs of non-whitespace
Split(s) ==
    LET step(acc, c) ==
            IF IsSpace(c)
            THEN IF acc.cur = <<>> THEN acc
                 ELSE [words |-> Append(acc.words, acc.cur), cur |-> <<>>]
            ELSE [acc EXCEPT !.cur = Append(@, c)]
        F[k \in 0..Len(s)] ==
            IF k = 0 THEN [words |-> <<>>, cur |-> <<>>] ELSE step(F[k - 1], s[k])
        r == F[Len(s)]
    IN  IF r.cur = <<>> THEN r.words ELSE Append(r.words, r.cur)

\* " ".join(words)
RECURSIVE Join(_)
Join(ws) ==
    IF ws = <<>> THEN <<>>
    ELSE IF Len(ws) = 1 THEN ws[1]
    ELSE ws[1] \o <<" ">> \o Join(Tail(ws))

-----------------------------------------------------------------------------
(* Inputs: queries and texts *)

Q_hi      == <<"h", "i">>
Q_unsafe  == <<"S", "e", "x", " ", "e", "d">>
Q_which   == <<"w", "h", "i", "c", "h">>
Q_howto   == <<"h", "o", "w", " ", "t", "o">>
Q_ok      == <<"o", "k">>
Q_long    == <<"a", " ", "a", " ", "a", " ", "a", " ", "a", " ", "a", " ",
               "a", " ", "a", " ", "a", " ", "a", " ", "a">>
Q_blank   == <<" ", " ", " ">>
Q_empty   == <<>>

Queries == {Q_hi, Q_unsafe, Q_which, Q_howto, Q_ok, Q_long, Q_blank}
BatchTexts == {Q_ok, Q_which, Q_blank}
Texts   == BatchTexts \cup {Q_hi, Q_empty}

Owners == {"hawa_singh", "other"}

-----------------------------------------------------------------------------
(* Embedding provider and GeminiEmbedder (src/src/embeddings.py) *)

\* What one genai.embed_content call can do: return a vector, or raise. The
\* error is kept as the class of its message: "429" (the rate-limit signal
\* the code looks for), "embedding" (another error whose message mentions the
\* embedding), "other".
ProviderErrors == {"429", "embedding", "other"}
ProviderOutcomes == {"ok"} \cup ProviderErrors

\* The provider's vector for a text: a fixed function of the text.
ProviderVector(t) == Len(t)

\* retrieval.py:27
min_query_interval == 2

\* d more seconds pass
Elapse(since, d) == Min(since + d, min_query_interval)

max_retries == 3
initial_retry_delay == 2

\* a validation that lets whitespace through
IsBlankText_EmptyOnly(t) == t = <<>>

\* embeddings.py:30  `if not text.strip(): raise ValueError`
IsBlankText(t) == Strip(t) = <<>>

\* a retry that does not look at the kind of error
ShouldRetry_AnyError(err, att) == att < max_retries - 1

\* embeddings.py:57  `"429" in str(e) and attempt < max_retries - 1`
ShouldRetry(err, att) == err = "429" /\ att < max_retries - 1

\* embeddings.py:60  `retry_delay *= 2`
NextRetryDelay(d) == d * 2

\* what a call handed back: nothing yet, a value, or an exception
NoRet    == [st |-> "none"]
Ok(v)    == [st |-> "ok", vec |-> v]
Err(e)   == [st |-> "raised", err |-> e]
NoResult == [kind |-> "none"]

\* embed_text entered with text t: counters of the call start from zero
EnterEmbedText(t) ==
    /\ query' = t
    /\ outcomes' = <<>>
    /\ sleeps' = <<>>
    /\ embRet' = NoRet
    /\ pc' = "embed_validate"

\* embeddings.py:20-40: input validation, before any provider call
EmbedValidate ==
    /\ pc = "embed_validate"
    /\ IF IsBlankText(query)
       THEN /\ embRet' = Err("ValueError")
            /\ pc' = "embed_done"
            /\ UNCHANGED <<attempt, retry_delay>>
       ELSE /\ attempt' = 0
            /\ retry_delay' = initial_retry_delay
            /\ pc' = "embed_call"
            /\ UNCHANGED embRet
    /\ UNCHANGED <<op, impl, query, owner, analysis, strategy, result,
                   outcomes, searchCalls, storeRet, sleeps, embedding_dimension>>
    /\ UNCHANGED <<batchVars, clockVars, storeVars, extVars, chunkVars>>

\* embeddings.py:42-62: one iteration of the retry loop
EmbedCall ==
    /\ pc = "embed_call"
    /\ \E out \in ProviderOutcomes :
         /\ outcomes' = Append(outcomes, out)
         /\ IF out = "ok"
            THEN /\ embedding_dimension' =
                        IF embedding_dimension = None THEN "len(embedding)"
                        ELSE embedding_dimension
                 /\ embRet' = Ok(ProviderVector(query))
                 /\ pc' = "embed_done"
                 /\ UNCHANGED <<attempt, retry_delay, sleeps, time_since_last_query>>
            ELSE IF ShouldRetry(out, attempt)
            THEN /\ sleeps' = Append(sleeps, retry_delay)
                 /\ time_since_last_query' = Elapse(time_since_last_query, retry_delay)
                 /\ retry_delay' = NextRetryDelay(retry_delay)
                 /\ attempt' = attempt + 1
                 /\ UNCHANGED <<pc, embRet, embedding_dimension>>
            ELSE /\ embRet' = Err(out)
                 /\ pc' = "embed_done"
                 /\ UNCHANGED <<attempt, retry_delay, sleeps, time_since_last_query,
                                embedding_dimension>>
    /\ UNCHANGED <<op, impl, query, owner, analysis, strategy, result,
                   searchCalls, storeRet, throttled>>
    /\ UNCHANGED <<batchVars, storeVars, extVars, chunkVars>>

\* a caller invokes embed_text(t) directly
EmbedTextCall ==
    /\ pc = "idle"
    /\ \E t \in Texts : EnterEmbedText(t)
    /\ op' = "embed" /\ impl' = "single"
    /\ result' = NoResult
    /\ UNCHANGED <<owner, analysis, strategy, searchCalls, storeRet>>
    /\ UNCHANGED <<embVars, batchVars, clockVars, storeVars, extVars, chunkVars>>

\* embeddings.py:55 / 62-66: embed_text returns the vector or re-raises
EmbedTextReturn ==
    /\ pc = "embed_done" /\ op = "embed"
    /\ result' = IF embRet.st = "ok" THEN [kind |-> "returned", value |-> embRet.vec]
                 ELSE [kind |-> "raised", error |-> embRet.err]
    /\ pc' = "done"
    /\ UNCHANGED <<op, impl, query, owner, analysis, strategy, embRet,
                   outcomes, searchCalls, storeRet, sleeps>>
    /\ UNCHANGED <<embVars, batchVars, clockVars, storeVars, extVars, chunkVars>>

-----------------------------------------------------------------------------
(* GeminiEmbedder.embed_batch and embed_chunks (src/src/embeddings.py:68-106) *)

default_batch_size == 5

\* a batch put in front of the earlier ones
Extend_Prepend(embs, be) == be \o embs

\* embeddings.py:85  `embeddings.extend(batch_embeddings)`
Extend(embs, be) == embs \o be

\* number of texts in the batch that starts at 0-based index i: texts[i:i+batch_size]
BatchLen(ts, b, i) == Min(b, Len(ts) - i)

StartBatch(ts, b) ==
    /\ texts' = ts
    /\ batch_size' = b
    /\ bi' = 0 /\ bj' = 0
    /\ embeddings' = <<>>
    /\ batch_embeddings' = <<>>
    /\ pauses' = 0
    /\ impl' = "single"
    /\ IF Len(ts) = 0
       THEN /\ result' = [kind |-> "returned", value |-> <<>>]
            /\ pc' = "done"
            /\ UNCHANGED <<query, outcomes, sleeps, embRet>>
       ELSE /\ result' = NoResult
            /\ EnterEmbedText(ts[1])
    /\ UNCHANGED <<owner, analysis, strategy, searchCalls, storeRet>>
    /\ UNCHANGED <<embVars, clockVars, storeVars, extVars, chunkVars>>

\* embed_batch(texts, batch_size) is called
EmbedBatchCall ==
    /\ pc = "idle"
    /\ \E n \in 0..MaxTexts, b \in 1..MaxBatch :
         \E ts \in [1..n -> BatchTexts] :
            /\ op' = "embed_batch"
            /\ StartBatch(ts, b)

\* embed_chunks(chunks): embed_batch on the chunks' contents with the default
\* batch size
EmbedChunksCall ==
    /\ pc = "idle"
    /\ \E n \in 0..MaxTexts :
         \E ts \in [1..n -> BatchTexts] :
            /\ op' = "embed_chunks"
            /\ StartBatch(ts, default_batch_size)

\* what embed_batch returns once its loops are over; embed_chunks zips it
\* onto the chunks
BatchValue(o, ts, embs) ==
    IF o = "embed_chunks"
    THEN [k \in 1..Min(Len(ts), Len(embs)) |->
              [content |-> ts[k], embedding |-> embs[k]]]
    ELSE embs

\* embeddings.py:78-86: embed_text came back inside the batch loops
BatchAfterEmbed ==
    /\ pc = "embed_done" /\ op \in {"embed_batch", "embed_chunks"}
    /\ IF embRet.st # "ok"
       THEN \* the exception leaves embed_batch: nothing is returned
            /\ result' = [kind |-> "raised", error |-> embRet.err]
            /\ pc' = "done"
            /\ UNCHANGED <<bi, bj, embeddings, batch_embeddings, pauses,
                           query, outcomes, sleeps, embRet>>
       ELSE LET be == Append(batch_embeddings, embRet.vec) IN
            /\ pauses' = pauses + 1
            /\ IF bj + 1 < BatchLen(texts, batch_size, bi)
               THEN /\ bj' = bj + 1
                    /\ batch_embeddings' = be
                    /\ EnterEmbedText(texts[bi + bj + 2])
                    /\ UNCHANGED <<bi, embeddings, result>>
               ELSE /\ embeddings' = Extend(embeddings, be)
                    /\ batch_embeddings' = <<>>
                    /\ bj' = 0
                    /\ bi' = bi + batch_size
                    /\ IF bi + batch_size < Len(texts)
                       THEN /\ EnterEmbedText(texts[bi + batch_size + 1])
                            /\ UNCHANGED result
                       ELSE /\ result' = [kind |-> "returned",
                                          value |-> BatchValue(op, texts, Extend(embeddings, be))]
                            /\ pc' = "done"
                            /\ UNCHANGED <<query, outcomes, sleeps, embRet>>
    /\ UNCHANGED <<op, impl, owner, analysis, strategy, searchCalls, storeRet,
                   texts, batch_size>>
    /\ UNCHANGED <<embVars, clockVars, storeVars, extVars, chunkVars>>

-----------------------------------------------------------------------------
(* Query analysis *)

W_what  == <<"w", "h", "a", "t">>
W_how   == <<"h", "o", "w">>
W_why   == <<"w", "h", "y">>
W_when  == <<"w", "h", "e", "n">>
W_where == <<"w", "h", "e", "r", "e">>
W_which == <<"w", "h", "i", "c", "h">>
W_to    == <<"t", "o">>
W_how_to == <<"h", "o", "w", " ", "t", "o">>
W_steps == <<"s", "t", "e", "p", "s">>

\* single-process retriever, src/src/retrieval.py:113-136: the list of query types
AnalyzeQuerySingle(q) ==
    LET ql == Lower(q)
        specific == \E w \in {W_what, W_how, W_why, W_when, W_where, W_which} :
                        Contains(ql, w)
        howto == Contains(ql, W_how) /\ Contains(ql, W_to)
        t1 == IF specific THEN <<"specific">> ELSE <<>>
        t2 == IF howto THEN Append(t1, "how_to") ELSE t1
        t3 == IF t2 = <<>> THEN <<"general">> ELSE t2
    IN  Append(t3, IF Len(Split(ql)) > 10 THEN "complex" ELSE "simple")

InTypes(ts, t) == \E k \in 1..Len(ts) : ts[k] = t

\* retrieval_service/retrieval.py:164 and 171
greetings == { <<"h", "i">>, <<"h", "e", "l", "l", "o">>, <<"h", "e", "y">>,
               <<"n", "a", "m", "a", "s", "t", "e">>, <<"h", "o", "l", "a">> }
inappropriate_keywords == { <<"s", "e", "x">>, <<"p", "o", "r", "n">>,
                            <<"a", "d", "u", "l", "t">>, <<"n", "s", "f", "w">> }

Intents == {"greeting", "question", "how_to", "personal_info", "inappropriate"}
Complexities == {"simple", "complex"}

\* an intent that looks at the how-to flag first
HeuristicIntent_StepFirst(is_greeting, is_inappropriate, is_step_by_step) ==
    IF is_step_by_step THEN "how_to"
    ELSE IF is_greeting THEN "greeting"
    ELSE IF is_inappropriate THEN "inappropriate"
    ELSE "question"

\* retrieval_service/retrieval.py:174-182 and chat_processor.py:490-498: the
\* intent from the three flags
HeuristicIntent(is_greeting, is_inappropriate, is_step_by_step) ==
    IF is_greeting THEN "greeting"
    ELSE IF is_inappropriate THEN "inappropriate"
    ELSE IF is_step_by_step THEN "how_to"
    ELSE "question"

\* retrieval_service/retrieval.py:159-194
FallbackAnalysis(q) ==
    LET ql == Lower(q)
        is_greeting == \E g \in greetings : Contains(ql, g)
        is_step_by_step == Contains(ql, W_how_to) \/ Contains(ql, W_steps)
        is_inappropriate == \E k \in inappropriate_keywords : Contains(ql, k)
    IN  [intent |-> HeuristicIntent(is_greeting, is_inappropriate, is_step_by_step),
         complexity |-> IF Len(Split(q)) > 10 THEN "complex" ELSE "simple",
         is_greeting |-> is_greeting,
         is_inappropriate |-> is_inappropriate,
         is_step_by_step |-> is_step_by_step,
         confidence |-> 70]

\* retrieval_service/retrieval.py:105-112: the analysis returned when the
\* executor call itself raises
DefaultAnalysis ==
    [intent |-> "question", complexity |-> "simple", is_greeting |-> FALSE,
     is_inappropriate |-> FALSE, is_step_by_step |-> FALSE, confidence |-> 50]

\* retrieval_service/retrieval.py:141-153: every analysis a well-formed
\* answer of the generative model parses to
ModelAnalyses ==
    [intent : Intents, complexity : Complexities, is_greeting : BOOLEAN,
     is_inappropriate : BOOLEAN, is_step_by_step : BOOLEAN, confidence : {80}]

\* retrieval_service/retrieval.py:90-157: analyze_query. The model's answer
\* is outside the program: it parses to some analysis, or it fails to parse
\* (or the model call raises) and the heuristics answer, or the executor
\* call raises and the default analysis is returned.
AnalyzeQueryOutcomes(q) ==
    ModelAnalyses \cup {FallbackAnalysis(q), DefaultAnalysis}

\* a gate that looks at the greeting flag only
SkipRetrieval_GreetingOnly(a) == a.is_greeting

\* retrieval_service/retrieval.py:213
SkipRetrieval(a) == a.is_greeting \/ a.is_inappropriate

\* retrieval_service/retrieval.py:255-264
DetermineStrategy(a) ==
    IF a.complexity = "complex" THEN "comprehensive"
    ELSE IF a.intent = "how_to" THEN "focused"
    ELSE IF a.is_step_by_step THEN "structured"
    ELSE "balanced"

\* src/src/retrieval.py:64-72: strategy and n_results from the query types
SingleStrategy(ts) ==
    IF InTypes(ts, "specific") THEN [n_results |-> 2, strategy |-> "focused_search"]
    ELSE IF InTypes(ts, "how_to") THEN [n_results |-> 3, strategy |-> "focused_search"]
    ELSE [n_results |-> 3, strategy |-> "balanced_search"]

-----------------------------------------------------------------------------
(* Passage store *)

\* cosine-style distance of two provider vectors, 0 for equal vectors
Distance(a, b) == Min(Abs(a - b) * 20, 200)

\* Weaviate's certainty of a match
Certainty(a, b) == 100 - (Distance(a, b) \div 2)

Doc(o, k, t) == [id |-> <<o, k>>, content |-> t, embedding |-> ProviderVector(t),
                 creator_id |-> o, source |-> <<o, "file">>]

\* stored content the calls run against
StoreContents ==
    { [o \in Owners |-> None],
      [o \in Owners |-> IF o = "hawa_singh"
                        THEN <<Doc(o, 0, Q_ok), Doc(o, 1, Q_which)>> ELSE None],
      [o \in Owners |-> IF o = "hawa_singh"
                        THEN <<Doc(o, 0, Q_ok), Doc(o, 1, Q_which), Doc(o, 2, Q_howto)>>
                        ELSE <<Doc(o, 0, Q_hi)>>],
      [o \in Owners |-> IF o = "hawa_singh" THEN <<>> ELSE <<Doc(o, 0, Q_ok)>>] }

\* nearest-neighbour query of the backend: the n closest records, closest
\* first (ties in insertion order)
RECURSIVE Nearest(_, _, _)
Nearest(docs, v, n) ==
    IF n = 0 \/ docs = <<>> THEN <<>>
    ELSE LET best == CHOOSE k \in 1..Len(docs) :
                        \A m \in 1..Len(docs) :
                            \/ Distance(docs[k].embedding, v) < Distance(docs[m].embedding, v)
                            \/ (Distance(docs[k].embedding, v) = Distance(docs[m].embedding, v)
                                /\ k <= m)
             rest == [m \in 1..(Len(docs) - 1) |-> IF m < best THEN docs[m] ELSE docs[m + 1]]
         IN  <<docs[best]>> \o Nearest(rest, v, n - 1)

\* src/src/retrieval.py:84-93: chunks built from the store's results
SingleChunks(found, o, v) ==
    [k \in 1..Len(found) |->
        [content |-> found[k].content, creator_id |-> o,
         similarity |-> 100 - Distance(found[k].embedding, v),
         source |-> found[k].source]]

max_chunks == 5
similarity_threshold == 70

RECURSIVE KeepWhere(_, _)
KeepWhere(s, keep) ==
    IF s = <<>> THEN <<>>
    ELSE IF keep[1] THEN <<Head(s)>> \o KeepWhere(Tail(s), Tail(keep))
    ELSE KeepWhere(Tail(s), Tail(keep))

\* a query without the filter on the owner
WhereCreator_Any(d, o) == TRUE

\* retrieval_service/retrieval.py:285-289: with_where creator_id Equal
WhereCreator(d, o) == d.creator_id = o

\* the objects of the class CreatorContent: the records of every owner
OwnerOrder == <<"hawa_singh", "other">>
RECURSIVE DocsOf(_, _)
DocsOf(b, os) ==
    IF os = <<>> THEN <<>>
    ELSE (IF b[os[1]] = None THEN <<>> ELSE b[os[1]]) \o DocsOf(b, Tail(os))
CreatorContent(b) == DocsOf(b, OwnerOrder)

\* retrieval_service/retrieval.py:278-313: near-vector query filtered on
\* creator_id and certainty, at most max_chunks results, kept when their
\* certainty reaches the threshold
ScalableChunks(docs, o, v) ==
    LET near == [k \in 1..Len(docs) |->
                    /\ WhereCreator(docs[k], o)
                    /\ Certainty(docs[k].embedding, v) >= similarity_threshold]
        found == Nearest(KeepWhere(docs, near), v, max_chunks)
    IN  [k \in 1..Len(found) |->
            [content |-> found[k].content, creator_id |-> o,
             similarity |-> Certainty(found[k].embedding, v),
             source |-> found[k].source]]

-----------------------------------------------------------------------------
(* IntelligentRetriever, single process (src/src/retrieval.py) *)

\* retrieval.py:104-111: the exception retrieve_context raises for a caught one
RetrievalError(e) ==
    IF e = "429" THEN "Rate limit exceeded. Please wait a moment and try again."
    ELSE IF e = "embedding" THEN "Unable to process your query. Please try rephrasing it."
    ELSE "An error occurred while retrieving context. Please try again."

Response(s, cs, o) ==
    [kind |-> "response", strategy |-> s, chunks |-> cs, total_chunks |-> Len(cs),
     creator_id |-> o]

\* retrieval.py:44-57: rate limiting and query analysis, then embed_text
SingleRetrieveCall ==
    /\ pc = "idle"
    /\ \E q \in Queries, o \in Owners :
         /\ owner' = o
         /\ analysis' = AnalyzeQuerySingle(q)
         /\ EnterEmbedText(q)
    /\ throttled' = IF time_since_last_query < min_query_interval
                    THEN min_query_interval - time_since_last_query ELSE 0
    /\ time_since_last_query' = 0
    /\ op' = "retrieve" /\ impl' = "single"
    /\ result' = NoResult
    /\ strategy' = None
    /\ searchCalls' = 0 /\ storeRet' = None
    /\ UNCHANGED <<embVars, batchVars, storeVars, extVars, chunkVars>>

\* retrieval.py:61-74 and 104-111: embed_text came back
SingleAfterEmbed ==
    /\ pc = "embed_done" /\ op = "retrieve" /\ impl = "single"
    /\ IF embRet.st = "ok"
       THEN /\ strategy' = SingleStrategy(analysis).strategy
            /\ pc' = "search"
            /\ UNCHANGED result
       ELSE /\ result' = [kind |-> "raised", error |-> RetrievalError(embRet.err)]
            /\ pc' = "done"
            /\ UNCHANGED strategy
    /\ UNCHANGED <<op, impl, query, owner, analysis, embRet,
                   outcomes, searchCalls, storeRet, sleeps>>
    /\ UNCHANGED <<embVars, batchVars, clockVars, storeVars, extVars, chunkVars>>

\* a search that goes to the backend whether or not the owner is known
SearchCreatorOutcomes_NoGuard(o, v, n) ==
    {[ret |-> "failed", found |-> <<>>]} \cup
    (IF backend[o] = None THEN {}
     ELSE {[ret |-> "ok", found |-> Nearest(backend[o], v, n)]})

\* vector_store.py:112-127: search_creator. An owner without a collection
\* gets the empty result; otherwise the backend query answers or raises.
SearchCreatorOutcomes(o, v, n) ==
    IF o \notin collections THEN {[ret |-> "ok", found |-> <<>>]}
    ELSE {[ret |-> "failed", found |-> <<>>]} \cup
         (IF backend[o] = None THEN {}
          ELSE {[ret |-> "ok", found |-> Nearest(backend[o], v, n)]})

\* retrieval.py:95-111: the response, or the exception raised for a store
\* failure
SingleResult(s, r, o, v) ==
    IF r.ret = "failed"
    THEN [kind |-> "raised", error |-> RetrievalError("store")]
    ELSE LET cs == SingleChunks(r.found, o, v)
         IN  Response(s, cs, IF cs # <<>> THEN o ELSE None)

\* retrieval.py:76-111: search_creator and the response
SingleSearch ==
    /\ pc = "search" /\ op = "retrieve" /\ impl = "single"
    /\ searchCalls' = searchCalls + 1
    /\ \E r \in SearchCreatorOutcomes(owner, embRet.vec,
                                      SingleStrategy(analysis).n_results) :
         /\ storeRet' = r.ret
         /\ result' = SingleResult(strategy, r, owner, embRet.vec)
    /\ pc' = "done"
    /\ UNCHANGED <<op, impl, query, owner, analysis, strategy, embRet,
                   outcomes, sleeps>>
    /\ UNCHANGED <<embVars, batchVars, clockVars, storeVars, extVars, chunkVars>>

-----------------------------------------------------------------------------
(* IntelligentRetriever, service (retrieval_service/retrieval.py) *)

\* retrieval_service/main.py:88-89: the endpoint rejects a blank query
\* before retrieve_context is called
EndpointRejects(q) == Strip(q) = <<>>

\* retrieval_service/main.py:79-95 and retrieval.py:204-219: the endpoint
\* validates the request; retrieve_context analyzes the query and skips
\* greetings and inappropriate queries
ScalableRetrieveCall ==
    /\ pc = "idle"
    /\ \E q \in Queries, o \in Owners :
         /\ query' = q
         /\ owner' = o
         /\ IF EndpointRejects(q)
            THEN /\ analysis' = None
                 /\ result' = [kind |-> "raised", error |-> "HTTP 400"]
                 /\ pc' = "done"
            ELSE \E a \in AnalyzeQueryOutcomes(q) :
                 /\ analysis' = a
                 /\ IF SkipRetrieval(a)
                    THEN /\ result' = Response("skip", <<>>, o)
                         /\ pc' = "done"
                    ELSE /\ result' = NoResult
                         /\ pc' = "svc_embed"
    /\ op' = "retrieve" /\ impl' = "scalable"
    /\ strategy' = None
    /\ embRet' = NoRet
    /\ outcomes' = <<>>
    /\ searchCalls' = 0 /\ storeRet' = None
    /\ sleeps' = <<>>
    /\ UNCHANGED <<embVars, batchVars, clockVars, storeVars, extVars, chunkVars>>

\* retrieval.py:58-81, 222-225 and 246-253: EmbeddingService.embed_text makes
\* one provider call; its exception is caught by retrieve_context, which
\* answers with the strategy "error"
ScalableEmbed ==
    /\ pc = "svc_embed"
    /\ \E out \in ProviderOutcomes :
         /\ outcomes' = Append(outcomes, out)
         /\ IF out = "ok"
            THEN /\ embRet' = Ok(ProviderVector(query))
                 /\ strategy' = DetermineStrategy(analysis)
                 /\ pc' = "svc_search"
                 /\ UNCHANGED result
            ELSE /\ embRet' = Err(out)
                 /\ result' = Response("error", <<>>, owner)
                 /\ pc' = "done"
                 /\ UNCHANGED strategy
    /\ UNCHANGED <<op, impl, query, owner, analysis, searchCalls, storeRet, sleeps>>
    /\ UNCHANGED <<embVars, batchVars, clockVars, storeVars, extVars, chunkVars>>

\* retrieval.py:266-317: _execute_retrieval; the Weaviate query answers or
\* raises, and a raised query is turned into the empty list
ExecuteRetrievalOutcomes(o, v) ==
    LET docs == CreatorContent(backend)
    IN  {[ret |-> "ok", chunks |-> ScalableChunks(docs, o, v)],
         [ret |-> "failed", chunks |-> <<>>]}

\* retrieval.py:228-244: the response built from what _execute_retrieval returned
ScalableSearch ==
    /\ pc = "svc_search"
    /\ searchCalls' = searchCalls + 1
    /\ \E r \in ExecuteRetrievalOutcomes(owner, embRet.vec) :
         /\ storeRet' = r.ret
         /\ result' = Response(strategy, r.chunks, owner)
    /\ pc' = "done"
    /\ UNCHANGED <<op, impl, query, owner, analysis, strategy, embRet,
                   outcomes, sleeps>>
    /\ UNCHANGED <<embVars, batchVars, clockVars, storeVars, extVars, chunkVars>>

-----------------------------------------------------------------------------
(* The caller and the clock *)

ChunkerIdle ==
    /\ chunk_size = 0 /\ overlap = 0 /\ sentences = <<>>
    /\ current_chunk = <<>> /\ chunks = <<>> /\ firsts = <<>> /\ first = <<>>
    /\ doc = <<>> /\ todo = <<>>

NoArg == [creator_id |-> None, chunk_id |-> 0, text |-> <<>>]

StoreCallerIdle ==
    /\ sop = "none" /\ spc = "idle" /\ sarg = NoArg /\ sret = NoResult
    /\ snap = None /\ sfailed = FALSE

ResetIdle ==
    /\ rpc = "idle" /\ rtodo = <<>> /\ rret = NoResult /\ rfailed = FALSE

ClassifierIdle ==
    /\ cop = "none" /\ cpc = "idle" /\ cquery = <<>> /\ cmodel = "none"
    /\ cret = NoResult

IngestIdle ==
    /\ ipc = "idle" /\ files = <<>> /\ content = <<>> /\ pending = <<>>
    /\ content_files = <<>> /\ attempts = <<>> /\ iret = NoResult

\* two threads of the process
Threads == {1, 2}

\* constructor calls of one run
MaxConstructorCalls == 3
Objects == 1..MaxConstructorCalls

SingletonIdle ==
    /\ cls = "CreatorVectorStore" /\ cls_instance = 0 /\ created = 0
    /\ initialized = [o \in Objects |-> "unset"]
    /\ bodies = [o \in Objects |-> 0]
    /\ tpc = [t \in Threads |-> "idle"] /\ tself = [t \in Threads |-> 0]

\* the clock stops here
MaxTime == 6

\* retrieve_context calls of one run
MaxRetrieveCalls == 3

\* retrieval.py:26: last_query_time = 0; time.time() is far from 0
ThrottleIdle ==
    /\ now = min_query_interval /\ last_query_time = 0
    /\ qpc = [t \in Threads |-> "idle"]
    /\ current_time = [t \in Threads |-> 0]
    /\ wake = [t \in Threads |-> 0]
    /\ work_starts = <<>>

\* api_gateway/main.py:139: CircuitBreaker() defaults
failure_threshold == 5
recovery_timeout == 60

\* chat_proxy requests in flight at once
Requests == {1, 2}

\* failures are counted up to here
MaxFailures == 7

\* the gateway's clock stops here
MaxGatewayTime == 200

\* api_gateway/main.py:142-144: empty dicts; .get(service, "closed"),
\* .get(service, 0)
BreakerIdle ==
    /\ state = "closed" /\ failure_count = 0 /\ last_failure_time = 0
    /\ gateway_time = 0
    /\ gpc = [r \in Requests |-> "idle"]
    /\ streak = 0 /\ reopened = FALSE

\* worker processes of a service that share the Redis counter
\* (config/settings.py:57, 62)
Workers == {1, 2, 3}

\* the configured number of requests of a window
\* (chat_service/main.py:56, 79-80; api_gateway/main.py:87-89), small here
max_requests == 2

\* check_rate_limit calls of one window
MaxChecks == 6

LimiterIdle ==
    /\ counter = 0 /\ allowed = 0 /\ denied = 0
    /\ lpc = [w \in Workers |-> "idle"]
    /\ current = [w \in Workers |-> 0]

ConcIdle == SingletonIdle /\ ThrottleIdle /\ BreakerIdle /\ LimiterIdle

ExtIdle == ClassifierIdle /\ IngestIdle /\ ConcIdle

StoreIdle ==
    /\ StoreCallerIdle /\ ResetIdle
    /\ failed = FALSE /\ sinceReset = "unknown"

CallLocalsIdle ==
    /\ op = "none" /\ impl = "single" /\ pc = "idle"
    /\ query = <<>> /\ owner = None /\ analysis = None /\ strategy = None
    /\ embRet = NoRet /\ result = NoResult
    /\ outcomes = <<>> /\ searchCalls = 0 /\ storeRet = None /\ sleeps = <<>>
    /\ attempt = 0 /\ retry_delay = 0
    /\ texts = <<>> /\ batch_size = 0 /\ bi = 0 /\ bj = 0
    /\ embeddings = <<>> /\ batch_embeddings = <<>> /\ pauses = 0
    /\ throttled = 0

\* retrieval.py:26: last_query_time = 0, so the first call is never throttled
CallerIdle ==
    /\ CallLocalsIdle
    /\ embedding_dimension = None
    /\ time_since_last_query = min_query_interval

\* the operation's result has been handed over and its locals are gone; the
\* caller may start another
Return ==
    /\ pc = "done" /\ op \notin {"chunk", "chunk_text"}
    /\ op' = "none" /\ impl' = "single" /\ pc' = "idle"
    /\ query' = <<>> /\ owner' = None /\ analysis' = None /\ strategy' = None
    /\ embRet' = NoRet /\ result' = NoResult
    /\ outcomes' = <<>> /\ searchCalls' = 0 /\ storeRet' = None /\ sleeps' = <<>>
    /\ attempt' = 0 /\ retry_delay' = 0
    /\ texts' = <<>> /\ batch_size' = 0 /\ bi' = 0 /\ bj' = 0
    /\ embeddings' = <<>> /\ batch_embeddings' = <<>> /\ pauses' = 0
    /\ throttled' = 0
    /\ UNCHANGED <<embedding_dimension, time_since_last_query>>
    /\ UNCHANGED <<storeVars, extVars, chunkVars>>

\* time passes between operations
Tick ==
    /\ pc = "idle"
    /\ time_since_last_query < min_query_interval
    /\ time_since_last_query' = Elapse(time_since_last_query, 1)
    /\ UNCHANGED throttled
    /\ UNCHANGED <<retrVars, embVars, batchVars, storeVars, extVars, chunkVars>>

\* the retriever and the store as constructed over some stored content:
\* CreatorVectorStore.__init__ loads every collection the backend holds
Init ==
    /\ CallerIdle
    /\ ChunkerIdle
    /\ backend \in StoreContents
    /\ collections = {o \in Owners : backend[o] # None}
    /\ StoreIdle
    /\ ExtIdle

Next ==
    \/ SingleRetrieveCall
    \/ SingleAfterEmbed
    \/ SingleSearch
    \/ ScalableRetrieveCall
    \/ ScalableEmbed
    \/ ScalableSearch
    \/ EmbedTextCall
    \/ EmbedTextReturn
    \/ EmbedBatchCall
    \/ EmbedChunksCall
    \/ BatchAfterEmbed
    \/ EmbedValidate
    \/ EmbedCall
    \/ Return
    \/ Tick

Spec == Init /\ [][Next]_vars

-----------------------------------------------------------------------------
(* SmartChunker (src/src/chunking.py) *)

\* config.py:12-13
CHUNK_SIZE == 1000
CHUNK_OVERLAP == 200

MaxSentences == 3
MaxWords == 2

Words == { <<"a", "a">>, <<"b", "b", "b">> }

\* what _split_into_sentences hands on: non-empty, stripped, words one space apart
SentenceSet == { Join(ws) : ws \in UNION { [1..n -> Words] : n \in 1..MaxWords } }

\* constructor arguments; 0 stands for an argument left out
ChunkSizeArgs == {0, 5, 9}
OverlapArgs == {0, 3, 6}

\* chunking.py:8-9  `chunk_size or config.CHUNK_SIZE`, `overlap or config.CHUNK_OVERLAP`
OrDefault(arg, default) == IF arg = 0 THEN default ELSE arg

\* a count that leaves the separator out
WordFits_NoSeparator(char_count, word, overlap_size) == char_count + Len(word) <= overlap_size

\* chunking.py:104  `char_count + len(word) + 1 <= overlap_size`
WordFits(char_count, word, overlap_size) == char_count + Len(word) + 1 <= overlap_size

\* chunking.py:103-108: walk the words backwards while they fit
RECURSIVE OverlapWords(_, _, _, _)
OverlapWords(words, overlap_words, char_count, overlap_size) ==
    IF words = <<>> THEN overlap_words
    ELSE LET word == words[Len(words)] IN
         IF WordFits(char_count, word, overlap_size)
         THEN OverlapWords(SubSeq(words, 1, Len(words) - 1), <<word>> \o overlap_words,
                           char_count + Len(word) + 1, overlap_size)
         ELSE overlap_words

\* chunking.py:92-110
GetOverlapText(text, overlap_size) ==
    IF Len(text) <= overlap_size THEN text
    ELSE Join(OverlapWords(Split(text), <<>>, 0, overlap_size))

\* chunking.py:70
PotentialChunk(cur, sentence) ==
    IF cur # <<>> THEN cur \o <<" ">> \o sentence ELSE sentence

\* chunking.py:80-84: the chunk that starts with the overflowing sentence
SeededChunk(cur, closed, ov, sentence) ==
    IF closed # <<>> /\ ov > 0
    THEN GetOverlapText(cur, ov) \o <<" ">> \o sentence
    ELSE sentence

\* SmartChunker(chunk_size, overlap)._create_semantic_chunks(sentences) is
\* called. The argument is a list of at most MaxSentences sentences; the model
\* draws each of them when the loop reaches it.
CreateChunksCall ==
    /\ pc = "idle"
    /\ \E cs \in ChunkSizeArgs, ov \in OverlapArgs :
         /\ chunk_size' = OrDefault(cs, CHUNK_SIZE)
         /\ overlap' = OrDefault(ov, CHUNK_OVERLAP)
    /\ sentences' = <<>>
    /\ current_chunk' = <<>>
    /\ chunks' = <<>>
    /\ firsts' = <<>>
    /\ first' = <<>>
    /\ UNCHANGED <<doc, todo>>
    /\ op' = "chunk"
    /\ pc' = "chunk_loop"
    /\ UNCHANGED <<impl, query, owner, analysis, strategy, embRet, result,
                   outcomes, searchCalls, storeRet, sleeps>>
    /\ UNCHANGED <<embVars, batchVars, clockVars, storeVars, extVars>>

\* chunking.py:70-84: the loop body of _create_semantic_chunks for one sentence
TakeSentence(sentence) ==
    LET potential_chunk == PotentialChunk(current_chunk, sentence)
    IN  /\ sentences' = Append(sentences, sentence)
        /\ IF Len(potential_chunk) <= chunk_size
           THEN /\ current_chunk' = potential_chunk
                /\ first' = IF current_chunk = <<>> THEN sentence ELSE first
                /\ UNCHANGED <<chunks, firsts>>
           ELSE LET closed == IF current_chunk # <<>>
                              THEN Append(chunks, Strip(current_chunk)) ELSE chunks
                IN  /\ chunks' = closed
                    /\ firsts' = IF current_chunk # <<>> THEN Append(firsts, first)
                                 ELSE firsts
                    /\ current_chunk' = SeededChunk(current_chunk, closed, overlap,
                                                    sentence)
                    /\ first' = sentence

\* chunking.py:86-90: the chunks once the last one is appended
WithLastChunk(cs, cur) == IF cur # <<>> THEN Append(cs, Strip(cur)) ELSE cs

\* chunking.py:68-84: one iteration of the loop over the sentences
ChunkSentence ==
    /\ pc = "chunk_loop"
    /\ Len(sentences) < MaxSentences
    /\ \E sentence \in SentenceSet : TakeSentence(sentence)
    /\ UNCHANGED <<chunk_size, overlap, doc, todo>>
    /\ UNCHANGED <<retrVars, embVars, batchVars, clockVars, storeVars, extVars>>

\* chunking.py:86-90: the sentences are used up; the last chunk, and the list
\* is returned
ChunkFinish ==
    /\ pc = "chunk_loop"
    /\ chunks' = WithLastChunk(chunks, current_chunk)
    /\ firsts' = IF current_chunk # <<>> THEN Append(firsts, first) ELSE firsts
    /\ pc' = "done"
    /\ UNCHANGED <<chunk_size, overlap, sentences, current_chunk, first, doc, todo>>
    /\ UNCHANGED <<op, impl, query, owner, analysis, strategy, embRet, result,
                   outcomes, searchCalls, storeRet, sleeps>>
    /\ UNCHANGED <<embVars, batchVars, clockVars, storeVars, extVars>>

\* chunking.py:42  re.sub(r'\s+', ' ', text)
RECURSIVE CollapseWhitespace(_)
CollapseWhitespace(s) ==
    IF s = <<>> THEN <<>>
    ELSE IF IsSpace(s[1])
    THEN LET rest == CollapseWhitespace(Tail(s))
         IN  IF Len(s) > 1 /\ IsSpace(s[2]) THEN rest ELSE <<" ">> \o rest
    ELSE <<s[1]>> \o CollapseWhitespace(Tail(s))

\* chunking.py:44  the characters [^\w\s.,!?;:()\-"] removes are all but these
WordChars == {"a", "b", "c"}
KeptPunctuation == {".", ",", "!", "?", ";", ":", "(", ")", "-", "\""}
IsKept(c) == c \in WordChars \/ IsSpace(c) \/ c \in KeptPunctuation

\* chunking.py:39-45
CleanText(text) == Strip(SelectSeq(CollapseWhitespace(text), IsKept))

Whitespace == {" ", "\n", "\t"}
SentenceEnds == {".", "!", "?"}
IsSentenceEnd(c) == c \in SentenceEnds

\* the last index of the run of characters of cs that starts at i
RunEnd(s, i, cs) ==
    CHOOSE j \in i..Len(s) :
        /\ \A m \in (i + 1)..j : s[m] \in cs
        /\ j = Len(s) \/ s[j + 1] \notin cs

\* chunking.py:50  re.split(r'[.!?]+\s+', text): the pieces between the
\* matches; a match is a run of sentence ends and the whitespace after it
RECURSIVE ReSplit(_)
ReSplit(s) ==
    LET starts == { i \in 1..Len(s) :
                      /\ IsSentenceEnd(s[i])
                      /\ (i = 1 \/ ~IsSentenceEnd(s[i - 1]))
                      /\ RunEnd(s, i, SentenceEnds) < Len(s)
                      /\ IsSpace(s[RunEnd(s, i, SentenceEnds) + 1]) }
    IN  IF starts = {} THEN <<s>>
        ELSE LET i == CHOOSE x \in starts : \A y \in starts : x <= y
                 k == RunEnd(s, RunEnd(s, i, SentenceEnds) + 1, Whitespace)
             IN  <<SubSeq(s, 1, i - 1)>> \o ReSplit(SubSeq(s, k + 1, Len(s)))

\* chunking.py:56  sentence.split('\n')
RECURSIVE SplitLines(_)
SplitLines(s) ==
    LET breaks == { i \in 1..Len(s) : s[i] = "\n" }
    IN  IF breaks = {} THEN <<s>>
        ELSE LET i == CHOOSE x \in breaks : \A y \in breaks : x <= y
             IN  <<SubSeq(s, 1, i - 1)>> \o SplitLines(SubSeq(s, i + 1, Len(s)))

\* chunking.py:57-59: the stripped, non-empty parts of the lines of one piece
RECURSIVE StrippedNonEmpty(_)
StrippedNonEmpty(subs) ==
    IF subs = <<>> THEN <<>>
    ELSE IF Strip(subs[1]) # <<>>
    THEN <<Strip(subs[1])>> \o StrippedNonEmpty(Tail(subs))
    ELSE StrippedNonEmpty(Tail(subs))

RECURSIVE AllSentences(_)
AllSentences(pieces) ==
    IF pieces = <<>> THEN <<>>
    ELSE StrippedNonEmpty(SplitLines(pieces[1])) \o AllSentences(Tail(pieces))

\* chunking.py:47-61
SplitIntoSentences(text) == AllSentences(ReSplit(text))

\* chunking.py:25-37: the chunk objects chunk_text returns
ChunkObjects(cs, source) ==
    [k \in 1..Len(cs) |->
        [content |-> cs[k], chunk_id |-> <<source, "_chunk_", k - 1>>,
         source |-> source, chunk_index |-> k - 1,
         word_count |-> Len(Split(cs[k])), character_count |-> Len(cs[k])]]

MaxDocLen == 5

\* characters of the documents: a letter, whitespace, a sentence end and a
\* character that cleaning removes
DocChars == {"a", " ", "\n", ".", "#"}
Docs == UNION { [1..n -> DocChars] : n \in 0..MaxDocLen }

\* constructor arguments of the chunker that segments the documents
DocChunkSizeArgs == {0, 3}
DocOverlapArgs == {0, 2}

\* chunking.py:11-22: chunk_text(text, source) on a chunker built with some
\* arguments: the text is cleaned and split into sentences
ChunkTextCall ==
    /\ pc = "idle"
    /\ \E cs \in DocChunkSizeArgs, ov \in DocOverlapArgs, d \in Docs :
         /\ chunk_size' = OrDefault(cs, CHUNK_SIZE)
         /\ overlap' = OrDefault(ov, CHUNK_OVERLAP)
         /\ doc' = d
         /\ todo' = SplitIntoSentences(CleanText(d))
    /\ sentences' = <<>>
    /\ current_chunk' = <<>>
    /\ chunks' = <<>>
    /\ firsts' = <<>>
    /\ first' = <<>>
    /\ op' = "chunk_text"
    /\ pc' = "chunk_text_loop"
    /\ UNCHANGED <<impl, query, owner, analysis, strategy, embRet, result,
                   outcomes, searchCalls, storeRet, sleeps>>
    /\ UNCHANGED <<embVars, batchVars, clockVars, storeVars, extVars>>

\* chunking.py:22, 68-84: _create_semantic_chunks takes the next sentence
ChunkTextSentence ==
    /\ pc = "chunk_text_loop"
    /\ todo # <<>>
    /\ TakeSentence(Head(todo))
    /\ todo' = Tail(todo)
    /\ UNCHANGED <<chunk_size, overlap, doc>>
    /\ UNCHANGED <<retrVars, embVars, batchVars, clockVars, storeVars, extVars>>

\* chunking.py:22-37, 86-90: the last chunk, and the chunk objects are returned
ChunkTextFinish ==
    /\ pc = "chunk_text_loop"
    /\ todo = <<>>
    /\ chunks' = WithLastChunk(chunks, current_chunk)
    /\ firsts' = IF current_chunk # <<>> THEN Append(firsts, first) ELSE firsts
    /\ result' = [kind |-> "returned",
                  value |-> ChunkObjects(WithLastChunk(chunks, current_chunk), "src")]
    /\ pc' = "done"
    /\ UNCHANGED <<chunk_size, overlap, sentences, current_chunk, first, doc, todo>>
    /\ UNCHANGED <<op, impl, query, owner, analysis, strategy, embRet,
                   outcomes, searchCalls, storeRet, sleeps>>
    /\ UNCHANGED <<embVars, batchVars, clockVars, storeVars, extVars>>

\* the chunks have been handed over
ChunkReturn ==
    /\ pc = "done" /\ op \in {"chunk", "chunk_text"}
    /\ chunk_size' = 0 /\ overlap' = 0 /\ sentences' = <<>>
    /\ current_chunk' = <<>> /\ chunks' = <<>> /\ firsts' = <<>> /\ first' = <<>>
    /\ doc' = <<>> /\ todo' = <<>>
    /\ op' = "none" /\ pc' = "idle"
    /\ result' = NoResult
    /\ UNCHANGED <<impl, query, owner, analysis, strategy, embRet,
                   outcomes, searchCalls, storeRet, sleeps>>
    /\ UNCHANGED <<embVars, batchVars, clockVars, storeVars, extVars>>

InitChunk ==
    /\ CallerIdle
    /\ ChunkerIdle
    /\ backend = [o \in Owners |-> None]
    /\ collections = {}
    /\ StoreIdle
    /\ ExtIdle

NextChunk ==
    \/ CreateChunksCall
    \/ ChunkSentence
    \/ ChunkFinish
    \/ ChunkTextCall
    \/ ChunkTextSentence
    \/ ChunkTextFinish
    \/ ChunkReturn

SpecChunk == InitChunk /\ [][NextChunk]_vars

-----------------------------------------------------------------------------
(* CreatorVectorStore as it is written to (src/src/vector_store.py):       *)
(* add_chunk, search_creator and get_collection_stats called by one        *)
(* thread, reset() by another. The handle the map keeps for an owner is    *)
(* the owner's collection in the backend; once that collection is deleted  *)
(* every call through the handle raises.                                   *)

ChunkIds   == {0, 1}
StoreTexts == {Q_ok, Q_which}

\* vector_store.py:113: n_results defaults to 5
n_results == 5

resetVars == <<rpc, rtodo, rret, rfailed>>
otherVars == <<retrVars, embVars, batchVars, clockVars, chunkVars, extVars>>

\* a call of the backend answers, or fails (database unreachable, disk full)
BackendAnswers == {"ok", "failed"}

Returned(v) == [kind |-> "returned", value |-> v]
Raised(e)   == [kind |-> "raised", error |-> e]

HasId(docs, id) == \E k \in 1..Len(docs) : docs[k].id = id

\* collection.add of one record (vector_store.py:168-173): the backend adds
\* a record whose id is new and ignores one whose id the collection holds
CollectionAdd(docs, d) == IF HasId(docs, d.id) THEN docs ELSE Append(docs, d)

\* the record add_chunk writes: text, embedding and metadata under the id
\* metadata["chunk_id"]
ChunkRecord(a) == Doc(a.creator_id, a.chunk_id, a.text)

\* client.list_collections(): the names of the collections the backend holds
ListCollections(b) ==
    LET Held(o) == b[o] # None
    IN  SelectSeq(OwnerOrder, Held)

\* vector_store.py:54: self.collections = {}
ClearedCollections == {}

\* add_chunk(creator_id, text, embedding, metadata) is called
AddChunkCall ==
    /\ spc = "idle"
    /\ \E o \in Owners, k \in ChunkIds, t \in StoreTexts :
          /\ sarg' = [creator_id |-> o, chunk_id |-> k, text |-> t]
          /\ snap' = backend[o]
    /\ sop' = "add_chunk" /\ spc' = "check"
    /\ sinceReset' = CASE sinceReset = "fresh" -> "one_add"
                       [] sinceReset = "one_add" -> "more"
                       [] OTHER -> sinceReset
    /\ UNCHANGED <<backend, collections, sret, sfailed, failed>>
    /\ UNCHANGED <<resetVars, otherVars>>

\* vector_store.py:162: if creator_id not in self.collections
AddChunkCheck ==
    /\ sop = "add_chunk" /\ spc = "check"
    /\ spc' = IF sarg.creator_id \notin collections THEN "get_collection"
              ELSE "lookup"
    /\ UNCHANGED <<backend, collections, sop, sarg, sret, snap, sfailed,
                   failed, sinceReset>>
    /\ UNCHANGED <<resetVars, otherVars>>

\* vector_store.py:63-67: client.get_collection; the bare except takes every
\* exception, a failure of the backend included, for "no such collection"
GetCollection ==
    /\ sop = "add_chunk" /\ spc = "get_collection"
    /\ \E b \in BackendAnswers :
          /\ spc' = IF b = "ok" /\ backend[sarg.creator_id] # None
                    THEN "set_map" ELSE "create_collection"
          /\ sfailed' = (sfailed \/ b = "failed")
          /\ failed' = (failed \/ b = "failed")
    /\ UNCHANGED <<backend, collections, sop, sarg, sret, snap, sinceReset>>
    /\ UNCHANGED <<resetVars, otherVars>>

\* vector_store.py:69-72: client.create_collection; it raises for a name
\* that exists, and nothing in add_chunk catches what it raises
CreateCollection ==
    /\ sop = "add_chunk" /\ spc = "create_collection"
    /\ \E b \in BackendAnswers :
          IF b = "failed"
          THEN /\ sret' = Raised("backend") /\ spc' = "done"
               /\ sfailed' = TRUE /\ failed' = TRUE
               /\ UNCHANGED backend
          ELSE IF backend[sarg.creator_id] # None
          THEN /\ sret' = Raised("collection exists") /\ spc' = "done"
               /\ UNCHANGED <<backend, sfailed, failed>>
          ELSE /\ backend' = [backend EXCEPT ![sarg.creator_id] = <<>>]
               /\ spc' = "set_map"
               /\ UNCHANGED <<sret, sfailed, failed>>
    /\ UNCHANGED <<collections, sop, sarg, snap, sinceReset>>
    /\ UNCHANGED <<resetVars, otherVars>>

\* vector_store.py:75: self.collections[creator_id] = collection
SetMap ==
    /\ sop = "add_chunk" /\ spc = "set_map"
    /\ collections' = collections \cup {sarg.creator_id}
    /\ spc' = "lookup"
    /\ UNCHANGED <<backend, sop, sarg, sret, snap, sfailed, failed, sinceReset>>
    /\ UNCHANGED <<resetVars, otherVars>>

\* vector_store.py:165: collection = self.collections[creator_id]
AddChunkLookup ==
    /\ sop = "add_chunk" /\ spc = "lookup"
    /\ IF sarg.creator_id \in collections
       THEN spc' = "add" /\ UNCHANGED sret
       ELSE spc' = "done" /\ sret' = Raised("KeyError")
    /\ UNCHANGED <<backend, collections, sop, sarg, snap, sfailed, failed,
                   sinceReset>>
    /\ UNCHANGED <<resetVars, otherVars>>

\* vector_store.py:168-173: collection.add, and the return
AddChunkAdd ==
    /\ sop = "add_chunk" /\ spc = "add"
    /\ \E b \in BackendAnswers :
          IF b = "failed"
          THEN /\ sret' = Raised("backend")
               /\ sfailed' = TRUE /\ failed' = TRUE
               /\ UNCHANGED backend
          ELSE IF backend[sarg.creator_id] = None
          THEN /\ sret' = Raised("collection deleted")
               /\ UNCHANGED <<backend, sfailed, failed>>
          ELSE /\ backend' = [backend EXCEPT ![sarg.creator_id] =
                                 CollectionAdd(@, ChunkRecord(sarg))]
               /\ sret' = Returned(None)
               /\ UNCHANGED <<sfailed, failed>>
    /\ spc' = "done"
    /\ UNCHANGED <<collections, sop, sarg, snap, sinceReset>>
    /\ UNCHANGED <<resetVars, otherVars>>

\* search_creator(creator_id, query_embedding) is called with the embedding
\* of a text
SearchCreatorCall ==
    /\ spc = "idle"
    /\ \E o \in Owners, t \in StoreTexts :
          sarg' = [creator_id |-> o, chunk_id |-> 0, text |-> t]
    /\ sop' = "search_creator" /\ spc' = "check"
    /\ UNCHANGED <<backend, collections, sret, snap, sfailed, failed, sinceReset>>
    /\ UNCHANGED <<resetVars, otherVars>>

\* vector_store.py:115-117: an owner that is not in the map gets the empty
\* result
SearchCreatorCheck ==
    /\ sop = "search_creator" /\ spc = "check"
    /\ IF sarg.creator_id \notin collections
       THEN spc' = "done" /\ sret' = Returned(<<>>)
       ELSE spc' = "lookup" /\ UNCHANGED sret
    /\ UNCHANGED <<backend, collections, sop, sarg, snap, sfailed, failed,
                   sinceReset>>
    /\ UNCHANGED <<resetVars, otherVars>>

\* vector_store.py:119: collection = self.collections[creator_id]
SearchCreatorLookup ==
    /\ sop = "search_creator" /\ spc = "lookup"
    /\ IF sarg.creator_id \in collections
       THEN spc' = "query" /\ UNCHANGED sret
       ELSE spc' = "done" /\ sret' = Raised("KeyError")
    /\ UNCHANGED <<backend, collections, sop, sarg, snap, sfailed, failed,
                   sinceReset>>
    /\ UNCHANGED <<resetVars, otherVars>>

\* vector_store.py:121-127: collection.query, and the return; nothing
\* catches what the query raises
SearchCreatorQuery ==
    /\ sop = "search_creator" /\ spc = "query"
    /\ \E b \in BackendAnswers :
          IF b = "failed"
          THEN /\ sret' = Raised("backend")
               /\ sfailed' = TRUE /\ failed' = TRUE
          ELSE IF backend[sarg.creator_id] = None
          THEN /\ sret' = Raised("collection deleted")
               /\ UNCHANGED <<sfailed, failed>>
          ELSE /\ sret' = Returned(Nearest(backend[sarg.creator_id],
                                           ProviderVector(sarg.text), n_results))
               /\ UNCHANGED <<sfailed, failed>>
    /\ spc' = "done"
    /\ UNCHANGED <<backend, collections, sop, sarg, snap, sinceReset>>
    /\ UNCHANGED <<resetVars, otherVars>>

\* vector_store.py:141-147: get_collection_stats, the count of every
\* collection of the map
GetCollectionStats ==
    /\ spc = "idle"
    /\ sop' = "get_collection_stats" /\ spc' = "done"
    /\ \E b \in BackendAnswers :
          IF b = "failed" /\ collections # {}
          THEN /\ sret' = Raised("backend")
               /\ sfailed' = TRUE /\ failed' = TRUE
          ELSE IF \E o \in collections : backend[o] = None
          THEN /\ sret' = Raised("collection deleted")
               /\ UNCHANGED <<sfailed, failed>>
          ELSE /\ sret' = Returned([o \in collections |-> Len(backend[o])])
               /\ UNCHANGED <<sfailed, failed>>
    /\ UNCHANGED <<backend, collections, sarg, snap, sinceReset>>
    /\ UNCHANGED <<resetVars, otherVars>>

\* the store operation's result has been handed over
StoreReturn ==
    /\ spc = "done"
    /\ sop' = "none" /\ spc' = "idle" /\ sarg' = NoArg /\ sret' = NoResult
    /\ snap' = None /\ sfailed' = FALSE
    /\ UNCHANGED <<backend, collections, failed, sinceReset>>
    /\ UNCHANGED <<resetVars, otherVars>>

\* reset() is called
ResetCall ==
    /\ rpc = "idle"
    /\ rpc' = "list"
    /\ sinceReset' = "unknown"
    /\ UNCHANGED <<backend, collections, sop, spc, sarg, sret, snap, sfailed,
                   rtodo, rret, rfailed, failed>>
    /\ UNCHANGED otherVars

\* vector_store.py:49: client.list_collections(); the except of lines 56-57
\* takes a failure and reset returns
ResetList ==
    /\ rpc = "list"
    /\ \E b \in BackendAnswers :
          IF b = "failed"
          THEN /\ rpc' = "done" /\ rret' = Returned(None)
               /\ rfailed' = TRUE /\ failed' = TRUE
               /\ sinceReset' = "fresh"
               /\ UNCHANGED rtodo
          ELSE /\ rpc' = "delete" /\ rtodo' = ListCollections(backend)
               /\ UNCHANGED <<rret, rfailed, failed, sinceReset>>
    /\ UNCHANGED <<backend, collections, sop, spc, sarg, sret, snap, sfailed>>
    /\ UNCHANGED otherVars

\* vector_store.py:50-51: client.delete_collection of the next listed
\* collection; the except of lines 56-57 takes a failure and reset returns
ResetDelete ==
    /\ rpc = "delete" /\ rtodo # <<>>
    /\ \E b \in BackendAnswers :
          IF b = "failed" \/ backend[Head(rtodo)] = None
          THEN /\ rpc' = "done" /\ rret' = Returned(None)
               /\ rfailed' = (rfailed \/ b = "failed")
               /\ failed' = (failed \/ b = "failed")
               /\ rtodo' = <<>>
               /\ sinceReset' = "fresh"
               /\ UNCHANGED backend
          ELSE /\ backend' = [backend EXCEPT ![Head(rtodo)] = None]
               /\ rtodo' = Tail(rtodo)
               /\ UNCHANGED <<rpc, rret, rfailed, failed, sinceReset>>
    /\ UNCHANGED <<collections, sop, spc, sarg, sret, snap, sfailed>>
    /\ UNCHANGED otherVars

\* vector_store.py:54-55: the map is cleared and reset returns
ResetClear ==
    /\ rpc = "delete" /\ rtodo = <<>>
    /\ collections' = ClearedCollections
    /\ rpc' = "done" /\ rret' = Returned(None)
    /\ sinceReset' = "fresh"
    /\ UNCHANGED <<backend, sop, spc, sarg, sret, snap, sfailed, rtodo,
                   rfailed, failed>>
    /\ UNCHANGED otherVars

\* reset's return has been handed over
ResetReturn ==
    /\ rpc = "done"
    /\ rpc' = "idle" /\ rtodo' = <<>> /\ rret' = NoResult /\ rfailed' = FALSE
    /\ UNCHANGED <<backend, collections, sop, spc, sarg, sret, snap, sfailed,
                   failed, sinceReset>>
    /\ UNCHANGED otherVars

\* one caller at a time: an operation starts when no other is in progress
SerialAddChunkCall       == rpc = "idle" /\ AddChunkCall
SerialSearchCreatorCall  == rpc = "idle" /\ SearchCreatorCall
SerialGetCollectionStats == rpc = "idle" /\ GetCollectionStats
SerialResetCall          == spc = "idle" /\ ResetCall

InitStore ==
    /\ CallerIdle
    /\ ChunkerIdle
    /\ backend \in StoreContents
    /\ collections = {o \in Owners : backend[o] # None}
    /\ StoreIdle
    /\ ExtIdle

NextStore ==
    \/ SerialAddChunkCall
    \/ AddChunkCheck
    \/ GetCollection
    \/ CreateCollection
    \/ SetMap
    \/ AddChunkLookup
    \/ AddChunkAdd
    \/ SerialSearchCreatorCall
    \/ SearchCreatorCheck
    \/ SearchCreatorLookup
    \/ SearchCreatorQuery
    \/ SerialGetCollectionStats
    \/ StoreReturn
    \/ SerialResetCall
    \/ ResetList
    \/ ResetDelete
    \/ ResetClear
    \/ ResetReturn

SpecStore == InitStore /\ [][NextStore]_vars

\* reset() called by one thread while the other is inside add_chunk or
\* search_creator: the steps of the two interleave freely, since nothing in
\* vector_store.py takes a lock
NextStoreConc ==
    \/ AddChunkCall
    \/ AddChunkCheck
    \/ GetCollection
    \/ CreateCollection
    \/ SetMap
    \/ AddChunkLookup
    \/ AddChunkAdd
    \/ SearchCreatorCall
    \/ SearchCreatorCheck
    \/ SearchCreatorLookup
    \/ SearchCreatorQuery
    \/ StoreReturn
    \/ ResetCall
    \/ ResetList
    \/ ResetDelete
    \/ ResetClear
    \/ ResetReturn

SpecStoreConc == InitStore /\ [][NextStoreConc]_vars

-----------------------------------------------------------------------------
(* Query classification: the heuristics of the service                     *)
(* (retrieval_service/retrieval.py, chat_service/chat_processor.py), the   *)
(* model-backed analyze_query, and the single-process analyzers            *)
(* (src/src/query_analyzer.py, src/src/retrieval.py)                       *)

MaxQueryTokens == 3

W_sext  == <<"s", "e", "x", "t">>
W_kaise == <<"k", "a", "i", "s", "e">>
W_and   == <<"a", "n", "d">>
W_aur   == <<"a", "u", "r">>

\* chat_processor.py:485
inappropriate_keywords_simple == inappropriate_keywords \cup {W_sext}

\* chat_processor.py:475-507: _analyze_query_simple
SimpleAnalysis(q) ==
    LET ql == Lower(q)
        is_greeting == \E g \in greetings : Contains(ql, g)
        is_inappropriate == \E k \in inappropriate_keywords_simple : Contains(ql, k)
        is_step_by_step == \/ Contains(ql, W_how_to) \/ Contains(ql, W_steps)
                           \/ Contains(ql, W_kaise)
    IN  [intent |-> HeuristicIntent(is_greeting, is_inappropriate, is_step_by_step),
         complexity |-> "simple",
         is_greeting |-> is_greeting,
         is_inappropriate |-> is_inappropriate,
         is_step_by_step |-> is_step_by_step,
         confidence |-> 80]

\* characters that are not \w: between one of them (or an end of the text)
\* and a word character the regular expression \b matches
NonWordChars == {" ", "\n", "\t", "?", ",", ";", ".", "!", ":", "-"}
IsWordChar(c) == c \notin NonWordChars

\* len(re.findall(c, query)) for a one-character pattern
CountChars(s, cs) == Cardinality({k \in 1..Len(s) : s[k] \in cs})

\* len(re.findall(r'\bw\b', query))
CountWord(s, w) ==
    Cardinality({k \in 1..(Len(s) - Len(w) + 1) :
                    /\ SubSeq(s, k, k + Len(w) - 1) = w
                    /\ (k = 1 \/ ~IsWordChar(s[k - 1]))
                    /\ (k + Len(w) - 1 = Len(s) \/ ~IsWordChar(s[k + Len(w)]))})

\* query_analyzer.py:117-134: _determine_complexity, handed query.lower()
\* by analyze_query (query_analyzer.py:87-93)
DetermineComplexity(q) ==
    LET ql == Lower(q)
        question_count == CountChars(ql, {"?"})
        and_count == CountWord(ql, W_and) + CountWord(ql, W_aur)
        concept_count == CountChars(ql, {",", ";"})
        word_count == Len(Split(ql))
    IN  IF question_count > 1 \/ and_count > 1 \/ concept_count > 1 \/ word_count > 20
        THEN "complex"
        ELSE IF \/ question_count = 1 \/ and_count = 1 \/ concept_count = 1
                \/ word_count > 10
        THEN "medium"
        ELSE "simple"

\* the words queries are made of
Vocabulary ==
    { <<"h", "i">>, W_which, <<"s", "e", "x">>, W_steps, W_and,
      <<"o", "k", "?">>, <<"a", ",">>, <<"b", "a", "n", "d">> }

TokenQueries ==
    { Join(ws) : ws \in UNION { [1..n -> Vocabulary] : n \in 0..MaxQueryTokens } }

\* a query of n one-letter words
LongQuery(n) == [k \in 1..(2 * n - 1) |-> IF k % 2 = 1 THEN "a" ELSE " "]
WordCounts == {10, 11, 20, 21}

ClassifyQueries == TokenQueries \cup { LongQuery(n) : n \in WordCounts }

\* what the call of the generative model does (retrieval.py:140-153):
\* generate_content raises or times out, the text is not JSON, a value is
\* not a member of its enum, or the answer parses to an analysis
ModelFailures == {"exception", "timeout", "malformed", "unknown_enum"}

\* an analyzer that answers a failure of the model with the default analysis
OnModelFailure_Default(q) == DefaultAnalysis

\* retrieval.py:154-157: every exception of the model call or of the parsing
\* is answered by the heuristics
OnModelFailure(q) == FallbackAnalysis(q)

\* _fallback_analysis(query)
FallbackCall ==
    /\ cpc = "idle"
    /\ \E q \in ClassifyQueries :
          /\ cquery' = q
          /\ cret' = [kind |-> "returned", value |-> FallbackAnalysis(q)]
    /\ cop' = "fallback" /\ cpc' = "done"
    /\ UNCHANGED cmodel
    /\ UNCHANGED classRest

\* _analyze_query_simple(query)
SimpleCall ==
    /\ cpc = "idle"
    /\ \E q \in ClassifyQueries :
          /\ cquery' = q
          /\ cret' = [kind |-> "returned", value |-> SimpleAnalysis(q)]
    /\ cop' = "simple" /\ cpc' = "done"
    /\ UNCHANGED cmodel
    /\ UNCHANGED classRest

\* src/src/query_analyzer.py: the complexity analyze_query reports
DetermineComplexityCall ==
    /\ cpc = "idle"
    /\ \E q \in ClassifyQueries :
          /\ cquery' = q
          /\ cret' = [kind |-> "returned", value |-> DetermineComplexity(q)]
    /\ cop' = "determine_complexity" /\ cpc' = "done"
    /\ UNCHANGED cmodel
    /\ UNCHANGED classRest

\* src/src/retrieval.py:113-136: _analyze_query(query)
SingleAnalyzeCall ==
    /\ cpc = "idle"
    /\ \E q \in ClassifyQueries :
          /\ cquery' = q
          /\ cret' = [kind |-> "returned", value |-> AnalyzeQuerySingle(q)]
    /\ cop' = "single" /\ cpc' = "done"
    /\ UNCHANGED cmodel
    /\ UNCHANGED classRest

\* retrieval.py:90-100: analyze_query(query) hands _analyze_query_sync to
\* the executor
AnalyzeQueryCall ==
    /\ cpc = "idle"
    /\ \E q \in ClassifyQueries : cquery' = q
    /\ cop' = "analyze_query" /\ cpc' = "executor"
    /\ UNCHANGED <<cmodel, cret>>
    /\ UNCHANGED classRest

\* retrieval.py:140-157: _analyze_query_sync. The model answers with an
\* analysis, or the call or the parsing fails and the heuristics answer
AnalyzeQuerySync ==
    /\ cop = "analyze_query" /\ cpc = "executor"
    /\ \/ \E a \in ModelAnalyses :
             /\ cmodel' = "answered"
             /\ cret' = [kind |-> "returned", value |-> a]
       \/ \E f \in ModelFailures :
             /\ cmodel' = f
             /\ cret' = [kind |-> "returned", value |-> OnModelFailure(cquery)]
    /\ cpc' = "done"
    /\ UNCHANGED <<cop, cquery>>
    /\ UNCHANGED classRest

\* retrieval.py:101-112: run_in_executor itself raises (the model is not
\* reached) and the default analysis is returned
AnalyzeQueryExecutorFails ==
    /\ cop = "analyze_query" /\ cpc = "executor"
    /\ cmodel' = "not called"
    /\ cret' = [kind |-> "returned", value |-> DefaultAnalysis]
    /\ cpc' = "done"
    /\ UNCHANGED <<cop, cquery>>
    /\ UNCHANGED classRest

\* the classifier's result has been handed over
ClassifyReturn ==
    /\ cpc = "done"
    /\ cop' = "none" /\ cpc' = "idle" /\ cquery' = <<>> /\ cmodel' = "none"
    /\ cret' = NoResult
    /\ UNCHANGED classRest

InitClassify ==
    /\ CallerIdle
    /\ ChunkerIdle
    /\ backend = [o \in Owners |-> None]
    /\ collections = {}
    /\ StoreIdle
    /\ ExtIdle

NextClassify ==
    \/ FallbackCall
    \/ SimpleCall
    \/ DetermineComplexityCall
    \/ SingleAnalyzeCall
    \/ AnalyzeQueryCall
    \/ AnalyzeQuerySync
    \/ AnalyzeQueryExecutorFails
    \/ ClassifyReturn

SpecClassify == InitClassify /\ [][NextClassify]_vars

-----------------------------------------------------------------------------
(* build_vector_database (src/build_vector_database.py): reset, load the   *)
(* files, chunk each, embed and store each chunk. reset() and add_chunk    *)
(* run as the steps of CreatorVectorStore above. A file is represented by  *)
(* the passages chunk_text makes of it.                                    *)

MaxFiles == 2
MaxFileChunks == 2

IngestOwner == "hawa_singh"
IngestTexts == {Q_ok}

\* a file of data/hawa_singh: whether open/read succeeds, and the passages
\* of its content (none is known of a file that cannot be read)
FileChunks == UNION { [1..n -> IngestTexts] : n \in 0..MaxFileChunks }
Files == { f \in [readable : BOOLEAN, chunks : FileChunks] :
             ~f.readable => f.chunks = <<>> }
FileLists == UNION { [1..n -> Files] : n \in 0..MaxFiles }

\* chunking.py:26: chunk_id = f"{source}_chunk_{i}", distinct for every
\* file and index
ChunkId(source, i) == source * 10 + i

\* build_vector_database.py:62: the chunks of an item, as add_chunk
\* arguments
ItemChunks(item) ==
    [i \in 1..Len(item.chunks) |->
        [creator_id |-> IngestOwner, chunk_id |-> ChunkId(item.source, i - 1),
         text |-> item.chunks[i]]]

\* embeddings.py:18-66: what embed_text hands back for a text
EmbedTextOutcomes(t) ==
    IF IsBlankText(t) THEN {Err("ValueError")}
    ELSE {Ok(ProviderVector(t))} \cup {Err(e) : e \in ProviderErrors}

\* a loop that gives up the remaining chunks of the item after a failure
AfterChunkFailure_Abort(rest) == <<>>

\* build_vector_database.py:85-87: except Exception: print, continue
AfterChunkFailure(rest) == rest

ingestStoreVars == <<backend, collections, sop, spc, sarg, sret, snap, sfailed,
                     failed, sinceReset>>
ingestRest == <<retrVars, batchVars, clockVars, chunkVars, classVars, concVars>>

\* build_vector_database.py:40-52: the components are constructed and
\* reset() is called
IngestCall ==
    /\ ipc = "idle" /\ spc = "idle" /\ rpc = "idle"
    /\ content_files' \in FileLists
    /\ files' = content_files'
    /\ ipc' = "reset"
    /\ rpc' = "list" /\ sinceReset' = "unknown"
    /\ UNCHANGED <<content, pending, attempts, iret>>
    /\ UNCHANGED <<backend, collections, sop, spc, sarg, sret, snap, sfailed,
                   rtodo, rret, rfailed, failed>>
    /\ UNCHANGED <<embVars, ingestRest>>

\* build_vector_database.py:16-20: glob; no file at all raises ValueError,
\* which the except of lines 91-93 answers with False
IngestGlob ==
    /\ ipc = "reset" /\ rpc = "done"
    /\ IF files = <<>>
       THEN ipc' = "done" /\ iret' = [kind |-> "returned", value |-> FALSE]
       ELSE ipc' = "load" /\ UNCHANGED iret
    /\ UNCHANGED <<content_files, files, content, pending, attempts>>
    /\ UNCHANGED <<ingestStoreVars, resetVars, embVars, ingestRest>>

\* build_vector_database.py:23-36: one file is read and appended, or it
\* cannot be read and is skipped
IngestReadFile ==
    /\ ipc = "load" /\ files # <<>>
    /\ content' = IF Head(files).readable
                  THEN Append(content, [source |-> Len(content_files) - Len(files),
                                        chunks |-> Head(files).chunks])
                  ELSE content
    /\ files' = Tail(files)
    /\ UNCHANGED <<ipc, content_files, pending, attempts, iret>>
    /\ UNCHANGED <<ingestStoreVars, resetVars, embVars, ingestRest>>

\* build_vector_database.py:60-63: the next item is chunked, or no item is
\* left
IngestNextItem ==
    /\ \/ ipc = "load" /\ files = <<>>
       \/ ipc = "chunks" /\ pending = <<>>
    /\ IF content = <<>>
       THEN ipc' = "stats" /\ UNCHANGED <<content, pending>>
       ELSE /\ ipc' = "chunks"
            /\ pending' = ItemChunks(Head(content))
            /\ content' = Tail(content)
    /\ UNCHANGED <<content_files, files, attempts, iret>>
    /\ UNCHANGED <<ingestStoreVars, resetVars, embVars, ingestRest>>

\* build_vector_database.py:66-72 and 85-87: embed_text of the next chunk;
\* with the embedding add_chunk is called, an exception skips the chunk
IngestEmbed ==
    /\ ipc = "chunks" /\ pending # <<>>
    /\ \E r \in EmbedTextOutcomes(Head(pending).text) :
          IF r.st = "ok"
          THEN /\ embedding_dimension' =
                      IF embedding_dimension = None THEN "len(embedding)"
                      ELSE embedding_dimension
               /\ sop' = "add_chunk" /\ spc' = "check"
               /\ sarg' = Head(pending)
               /\ snap' = backend[IngestOwner]
               /\ ipc' = "add"
               /\ UNCHANGED <<pending, attempts>>
          ELSE /\ pending' = AfterChunkFailure(Tail(pending))
               /\ attempts' = Append(attempts, [arg |-> Head(pending), ok |-> FALSE])
               /\ UNCHANGED <<embedding_dimension, sop, spc, sarg, snap, ipc>>
    /\ UNCHANGED <<content_files, files, content, iret>>
    /\ UNCHANGED <<backend, collections, sret, sfailed, failed, sinceReset>>
    /\ UNCHANGED <<attempt, retry_delay, resetVars, ingestRest>>

\* build_vector_database.py:72-87: add_chunk has returned, or it has raised
\* and the chunk is skipped
IngestAfterAdd ==
    /\ ipc = "add" /\ spc = "done"
    /\ attempts' = Append(attempts, [arg |-> sarg, ok |-> sret.kind = "returned"])
    /\ pending' = IF sret.kind = "returned" THEN Tail(pending)
                  ELSE AfterChunkFailure(Tail(pending))
    /\ sop' = "none" /\ spc' = "idle" /\ sarg' = NoArg /\ sret' = NoResult
    /\ snap' = None /\ sfailed' = FALSE
    /\ ipc' = "chunks"
    /\ UNCHANGED <<content_files, files, content, iret>>
    /\ UNCHANGED <<backend, collections, failed, sinceReset>>
    /\ UNCHANGED <<resetVars, embVars, ingestRest>>

\* build_vector_database.py:96-100: get_collection_stats, outside every try
IngestStats ==
    /\ ipc = "stats"
    /\ \E b \in BackendAnswers :
          IF b = "failed" /\ collections # {}
          THEN /\ iret' = Raised("backend") /\ failed' = TRUE
          ELSE IF \E o \in collections : backend[o] = None
          THEN /\ iret' = Raised("collection deleted") /\ UNCHANGED failed
          ELSE /\ iret' = [kind |-> "returned", value |-> TRUE]
               /\ UNCHANGED failed
    /\ ipc' = "done"
    /\ UNCHANGED <<content_files, files, content, pending, attempts>>
    /\ UNCHANGED <<backend, collections, sop, spc, sarg, sret, snap, sfailed,
                   sinceReset>>
    /\ UNCHANGED <<resetVars, embVars, ingestRest>>

InitIngest ==
    /\ CallerIdle
    /\ ChunkerIdle
    /\ backend \in StoreContents
    /\ collections = {o \in Owners : backend[o] # None}
    /\ StoreIdle
    /\ ExtIdle

NextIngest ==
    \/ IngestCall
    \/ ResetList
    \/ ResetDelete
    \/ ResetClear
    \/ IngestGlob
    \/ IngestReadFile
    \/ IngestNextItem
    \/ IngestEmbed
    \/ AddChunkCheck
    \/ GetCollection
    \/ CreateCollection
    \/ SetMap
    \/ AddChunkLookup
    \/ AddChunkAdd
    \/ IngestAfterAdd
    \/ IngestStats

SpecIngest == InitIngest /\ [][NextIngest]_vars

-----------------------------------------------------------------------------
(* The singleton constructors (src/src/retrieval.py:8-31,                  *)
(* src/src/vector_store.py:8-43): cls() runs __new__ and then __init__ on  *)
(* what __new__ returned. Two threads call cls(); a thread may be switched *)
(* between any two reads or writes of cls._instance and _initialized.      *)

SingletonClasses == {"IntelligentRetriever", "CreatorVectorStore"}

\* retrieval.py:12, vector_store.py:12: the value `cls._instance is None`
\* tested, which is the value of the moment of the test
InstanceSeenByTest(t) == cls_instance

\* a thread calls cls()
ConstructorCall(t) ==
    /\ tpc[t] = "idle"
    /\ created + Cardinality({u \in Threads : tpc[u] \in {"new_test", "new_alloc"}})
           < MaxConstructorCalls
    /\ tpc' = [tpc EXCEPT ![t] = "new_test"]
    /\ tself' = [tself EXCEPT ![t] = 0]
    /\ UNCHANGED <<cls, cls_instance, created, initialized, bodies>>
    /\ UNCHANGED singRest

\* __new__: if cls._instance is None
NewTest(t) ==
    /\ tpc[t] = "new_test"
    /\ tpc' = [tpc EXCEPT ![t] = IF InstanceSeenByTest(t) = 0 THEN "new_alloc"
                                 ELSE "new_return"]
    /\ UNCHANGED <<cls, cls_instance, created, initialized, bodies, tself>>
    /\ UNCHANGED singRest

\* __new__: cls._instance = super().__new__(cls)
NewAlloc(t) ==
    /\ tpc[t] = "new_alloc"
    /\ created' = created + 1
    /\ cls_instance' = created'
    /\ tpc' = [tpc EXCEPT ![t] = "new_flag"]
    /\ UNCHANGED <<cls, initialized, bodies, tself>>
    /\ UNCHANGED singRest

\* __new__: cls._instance._initialized = False, on the object cls._instance
\* holds now
NewFlag(t) ==
    /\ tpc[t] = "new_flag"
    /\ initialized' = [initialized EXCEPT ![cls_instance] = "False"]
    /\ tpc' = [tpc EXCEPT ![t] = "new_return"]
    /\ UNCHANGED <<cls, cls_instance, created, bodies, tself>>
    /\ UNCHANGED singRest

\* __new__: return cls._instance
NewReturn(t) ==
    /\ tpc[t] = "new_return"
    /\ tself' = [tself EXCEPT ![t] = cls_instance]
    /\ tpc' = [tpc EXCEPT ![t] = "init_test"]
    /\ UNCHANGED <<cls, cls_instance, created, initialized, bodies>>
    /\ UNCHANGED singRest

\* __init__: if self._initialized: return.  An object another thread has
\* made and not yet flagged has no such attribute: AttributeError
InitTest(t) ==
    /\ tpc[t] = "init_test"
    /\ tpc' = [tpc EXCEPT ![t] =
                  CASE initialized[tself[t]] = "unset" -> "raised"
                    [] initialized[tself[t]] = "True"  -> "done"
                    [] OTHER                           -> "init_body"]
    /\ UNCHANGED <<cls, cls_instance, created, initialized, bodies, tself>>
    /\ UNCHANGED singRest

\* __init__: the body starts; vector_store.py:24-31 makes the client and the
\* map, retrieval.py:22-27 the components
InitBody(t) ==
    /\ tpc[t] = "init_body"
    /\ bodies' = [bodies EXCEPT ![tself[t]] = @ + 1]
    /\ tpc' = [tpc EXCEPT ![t] = IF cls = "CreatorVectorStore" THEN "init_flag"
                                 ELSE "init_load"]
    /\ UNCHANGED <<cls, cls_instance, created, initialized, tself>>
    /\ UNCHANGED singRest

\* __init__: self._initialized = True; vector_store.py:32 before the
\* collections are loaded, retrieval.py:31 after
InitFlag(t) ==
    /\ tpc[t] = "init_flag"
    /\ initialized' = [initialized EXCEPT ![tself[t]] = "True"]
    /\ tpc' = [tpc EXCEPT ![t] = IF cls = "CreatorVectorStore" THEN "init_load"
                                 ELSE "done"]
    /\ UNCHANGED <<cls, cls_instance, created, bodies, tself>>
    /\ UNCHANGED singRest

\* __init__: the existing collections are loaded (vector_store.py:34-42,
\* retrieval.py:29-30)
InitLoad(t) ==
    /\ tpc[t] = "init_load"
    /\ tpc' = [tpc EXCEPT ![t] = IF cls = "CreatorVectorStore" THEN "done"
                                 ELSE "init_flag"]
    /\ UNCHANGED <<cls, cls_instance, created, initialized, bodies, tself>>
    /\ UNCHANGED singRest

\* cls() has returned the object, or raised; the thread goes on
ConstructorReturn(t) ==
    /\ tpc[t] \in {"done", "raised"}
    /\ tpc' = [tpc EXCEPT ![t] = "idle"]
    /\ UNCHANGED <<cls, cls_instance, created, initialized, bodies, tself>>
    /\ UNCHANGED singRest

InitSingleton ==
    /\ CallerIdle
    /\ ChunkerIdle
    /\ backend = [o \in Owners |-> None] /\ collections = {}
    /\ StoreIdle
    /\ ClassifierIdle /\ IngestIdle
    /\ cls \in SingletonClasses
    /\ cls_instance = 0 /\ created = 0
    /\ initialized = [o \in Objects |-> "unset"]
    /\ bodies = [o \in Objects |-> 0]
    /\ tpc = [t \in Threads |-> "idle"] /\ tself = [t \in Threads |-> 0]
    /\ ThrottleIdle /\ BreakerIdle /\ LimiterIdle

NextSingleton ==
    \E t \in Threads :
        \/ ConstructorCall(t)
        \/ NewTest(t)
        \/ NewAlloc(t)
        \/ NewFlag(t)
        \/ NewReturn(t)
        \/ InitTest(t)
        \/ InitBody(t)
        \/ InitFlag(t)
        \/ InitLoad(t)
        \/ ConstructorReturn(t)

SpecSingleton == InitSingleton /\ [][NextSingleton]_vars

-----------------------------------------------------------------------------
(* retrieve_context of the single-process retriever called by two threads  *)
(* on the one instance (src/src/retrieval.py:44-53): the spacing of the    *)
(* calls. Time passes between any two steps.                               *)

\* retrieval.py:48: self.last_query_time as the thread reads it
LastQueryTimeRead(t) == last_query_time

\* a thread calls retrieve_context
RetrieveContextCall(t) ==
    /\ qpc[t] = "idle"
    /\ Len(work_starts) + Cardinality({u \in Threads : qpc[u] # "idle"}) < MaxRetrieveCalls
    /\ qpc' = [qpc EXCEPT ![t] = "clock"]
    /\ UNCHANGED <<now, last_query_time, current_time, wake, work_starts>>
    /\ UNCHANGED throttleRest

\* retrieval.py:47: current_time = time.time()
ReadClock(t) ==
    /\ qpc[t] = "clock"
    /\ current_time' = [current_time EXCEPT ![t] = now]
    /\ qpc' = [qpc EXCEPT ![t] = "test"]
    /\ UNCHANGED <<now, last_query_time, wake, work_starts>>
    /\ UNCHANGED throttleRest

\* retrieval.py:48-50: the time since the last query; too short, the thread
\* sleeps for the remainder
ThrottleTest(t) ==
    /\ qpc[t] = "test"
    /\ LET time_since_last == current_time[t] - LastQueryTimeRead(t)
       IN  IF time_since_last < min_query_interval
           THEN /\ wake' = [wake EXCEPT ![t] = now + (min_query_interval - time_since_last)]
                /\ qpc' = [qpc EXCEPT ![t] = "sleep"]
           ELSE /\ qpc' = [qpc EXCEPT ![t] = "update"]
                /\ UNCHANGED wake
    /\ UNCHANGED <<now, last_query_time, current_time, work_starts>>
    /\ UNCHANGED throttleRest

\* retrieval.py:50: time.sleep returns when its time is over
ThrottleSleep(t) ==
    /\ qpc[t] = "sleep" /\ now >= wake[t]
    /\ qpc' = [qpc EXCEPT ![t] = "update"]
    /\ UNCHANGED <<now, last_query_time, current_time, wake, work_starts>>
    /\ UNCHANGED throttleRest

\* retrieval.py:53: self.last_query_time = time.time(); the call goes on to
\* analyse, embed and search
ThrottleUpdate(t) ==
    /\ qpc[t] = "update"
    /\ last_query_time' = now
    /\ work_starts' = Append(work_starts, now)
    /\ qpc' = [qpc EXCEPT ![t] = "idle"]
    /\ UNCHANGED <<now, current_time, wake>>
    /\ UNCHANGED throttleRest

\* a second passes
ClockTick ==
    /\ now < MaxTime
    /\ now' = now + 1
    /\ UNCHANGED <<last_query_time, qpc, current_time, wake, work_starts>>
    /\ UNCHANGED throttleRest

InitThrottle ==
    /\ CallerIdle
    /\ ChunkerIdle
    /\ backend = [o \in Owners |-> None] /\ collections = {}
    /\ StoreIdle
    /\ ExtIdle

NextThrottle ==
    \/ \E t \in Threads :
          \/ RetrieveContextCall(t)
          \/ ReadClock(t)
          \/ ThrottleTest(t)
          \/ ThrottleSleep(t)
          \/ ThrottleUpdate(t)
    \/ ClockTick

SpecThrottle == InitThrottle /\ [][NextThrottle]_vars

-----------------------------------------------------------------------------
(* The gateway's circuit breaker (api_gateway/main.py:136-174) as          *)
(* chat_proxy uses it (310-357): a request asks is_available, is forwarded *)
(* and records the outcome when the chat service has answered. Requests    *)
(* overlap at the awaits; the methods of the breaker have none.            *)

\* seconds between two readings of the clock
ClockStep == 20

\* a breaker that opens only on the failure that reaches the threshold
Opens_AtThresholdOnly(count) == count = failure_threshold

\* api_gateway/main.py:172: if self.failure_count[service_name] >=
\* self.failure_threshold
Opens(count) == count >= failure_threshold

\* api_gateway/main.py:154-155: the recovery timeout has passed
Recovered == gateway_time - last_failure_time > recovery_timeout

\* api_gateway/main.py:146-160: what is_available returns
IsAvailable ==
    CASE state = "closed" -> TRUE
      [] state = "open"   -> Recovered
      [] OTHER            -> TRUE

\* api_gateway/main.py:310-315: chat_proxy asks is_available; an open
\* circuit past its timeout becomes half-open; a request that is refused
\* ends with 503 and records nothing
ProxyIsAvailable(r) ==
    /\ gpc[r] = "idle"
    /\ state' = IF state = "open" /\ Recovered THEN "half-open" ELSE state
    /\ gpc' = [gpc EXCEPT ![r] = IF IsAvailable THEN "forwarded" ELSE "idle"]
    /\ UNCHANGED <<failure_count, last_failure_time, gateway_time, streak, reopened>>
    /\ UNCHANGED breakerRest

\* api_gateway/main.py:335-336 and 162-165: the chat service answered 200;
\* record_success
ProxyRecordSuccess(r) ==
    /\ gpc[r] = "forwarded"
    /\ failure_count' = 0
    /\ state' = "closed"
    /\ streak' = 0
    /\ gpc' = [gpc EXCEPT ![r] = "idle"]
    /\ UNCHANGED <<last_failure_time, gateway_time, reopened>>
    /\ UNCHANGED breakerRest

\* api_gateway/main.py:344-345, 354-355 and 167-174: another status, or the
\* call raised; record_failure
ProxyRecordFailure(r) ==
    /\ gpc[r] = "forwarded"
    /\ failure_count < MaxFailures
    /\ failure_count' = failure_count + 1
    /\ last_failure_time' = gateway_time
    /\ state' = IF Opens(failure_count') THEN "open" ELSE state
    /\ streak' = streak + 1
    /\ reopened' = (reopened \/ state = "half-open")
    /\ gpc' = [gpc EXCEPT ![r] = "idle"]
    /\ UNCHANGED gateway_time
    /\ UNCHANGED breakerRest

\* time passes at the gateway
GatewayTick ==
    /\ gateway_time + ClockStep <= MaxGatewayTime
    /\ gateway_time' = gateway_time + ClockStep
    /\ UNCHANGED <<state, failure_count, last_failure_time, gpc, streak, reopened>>
    /\ UNCHANGED breakerRest

InitBreaker ==
    /\ CallerIdle
    /\ ChunkerIdle
    /\ backend = [o \in Owners |-> None] /\ collections = {}
    /\ StoreIdle
    /\ ExtIdle

NextBreaker ==
    \/ \E r \in Requests :
          \/ ProxyIsAvailable(r)
          \/ ProxyRecordSuccess(r)
          \/ ProxyRecordFailure(r)
    \/ GatewayTick

SpecBreaker == InitBreaker /\ [][NextBreaker]_vars

-----------------------------------------------------------------------------
(* RateLimiter.check_rate_limit (api_gateway/main.py:94-132,               *)
(* chat_service/main.py:60-81) for one key within one window. The workers  *)
(* of a service are processes that share the key in Redis; every Redis     *)
(* command is atomic, the sequence of commands of a call is not.           *)

\* chat_service/main.py:64, api_gateway/main.py:100:
\* current = redis_client.get(key)
LimiterGet(w) ==
    /\ lpc[w] = "idle"
    /\ allowed + denied + Cardinality({u \in Workers : lpc[u] # "idle"}) < MaxChecks
    /\ current' = [current EXCEPT ![w] = counter]
    /\ lpc' = [lpc EXCEPT ![w] = "got"]
    /\ UNCHANGED <<counter, allowed, denied>>
    /\ UNCHANGED limiterRest

\* chat_service/main.py:66-69, api_gateway/main.py:102-109: no key was
\* found: setex(key, window, 1), allowed
LimiterSetex(w) ==
    /\ lpc[w] = "got" /\ current[w] = 0
    /\ counter' = 1
    /\ allowed' = allowed + 1
    /\ lpc' = [lpc EXCEPT ![w] = "idle"]
    /\ UNCHANGED <<current, denied>>
    /\ UNCHANGED limiterRest

\* chat_service/main.py:71-72, api_gateway/main.py:111-120: the count read
\* has reached the limit: not allowed
LimiterDeny(w) ==
    /\ lpc[w] = "got" /\ current[w] # 0 /\ current[w] >= max_requests
    /\ denied' = denied + 1
    /\ lpc' = [lpc EXCEPT ![w] = "idle"]
    /\ UNCHANGED <<counter, current, allowed>>
    /\ UNCHANGED limiterRest

\* chat_service/main.py:74-76, api_gateway/main.py:122-129: incr(key),
\* allowed
LimiterIncr(w) ==
    /\ lpc[w] = "got" /\ current[w] # 0 /\ current[w] < max_requests
    /\ counter' = counter + 1
    /\ allowed' = allowed + 1
    /\ lpc' = [lpc EXCEPT ![w] = "idle"]
    /\ UNCHANGED <<current, denied>>
    /\ UNCHANGED limiterRest

InitLimiter ==
    /\ CallerIdle
    /\ ChunkerIdle
    /\ backend = [o \in Owners |-> None] /\ collections = {}
    /\ StoreIdle
    /\ ExtIdle

NextLimiter ==
    \E w \in Workers :
        \/ LimiterGet(w)
        \/ LimiterSetex(w)
        \/ LimiterDeny(w)
        \/ LimiterIncr(w)

SpecLimiter == InitLimiter /\ [][NextLimiter]_vars

-----------------------------------------------------------------------------
(* Claims about the retrieval orchestrator *)

\* the analysis of the call in progress carries a greeting or an unsafe flag;
\* the query types of the single-process retriever carry no flags
AnalysisFlagged ==
    /\ op = "retrieve" /\ impl = "scalable" /\ ~EndpointRejects(query)
    /\ (analysis.is_greeting \/ analysis.is_inappropriate)

\* C1: whenever the analysis of a retrieve call has is_greeting or is_unsafe
\* set, the call has returned strategy "skip" with no passages, and at no point
\* of the call has the provider been called or the store been searched.
C1_FlaggedQuerySkipsWithoutCalls ==
    AnalysisFlagged =>
        /\ pc = "done"
        /\ result.kind = "response"
        /\ result.strategy = "skip"
        /\ result.chunks = <<>> /\ result.total_chunks = 0
        /\ outcomes = <<>>
        /\ searchCalls = 0

C1_Witness ==
    /\ AnalysisFlagged
    /\ analysis.is_inappropriate /\ ~analysis.is_greeting
    /\ backend[owner] # None
    /\ pc = "done" /\ result.strategy = "skip"

\* the query is "hi", or contains a denylisted keyword
HiOrUnsafe(q) ==
    \/ q = <<"h", "i">>
    \/ \E w \in { <<"s", "e", "x">>, <<"p", "o", "r", "n">>,
                  <<"a", "d", "u", "l", "t">>, <<"n", "s", "f", "w">> } :
          Contains(Lower(q), w)

\* C2: retrieve with the query "hi", or with a query that contains a
\* denylisted keyword, returns strategy "skip" and zero passages, whatever the
\* owner and the stored content.
C2_HiOrUnsafeReturnsSkip ==
    (op = "retrieve" /\ pc = "done" /\ HiOrUnsafe(query)) =>
        /\ result.kind = "response"
        /\ result.strategy = "skip"
        /\ result.chunks = <<>>

\* C3: when embedding the query fails, retrieve raises to its caller; it does
\* not return a response.
C3_EmbeddingFailureRaises ==
    (op = "retrieve" /\ pc = "done" /\ embRet.st = "raised") =>
        result.kind = "raised"

\* C4: when the store search fails, retrieve raises to its caller; it does
\* not return a response with a strategy label.
C4_StoreFailureRaises ==
    (op = "retrieve" /\ pc = "done" /\ storeRet = "failed") =>
        result.kind = "raised"

-----------------------------------------------------------------------------
(* Claims about the embedding client *)

\* an embed_text call is in progress or has just finished
InEmbedText == op # "none" /\ (embRet # NoRet \/ pc \in {"embed_validate", "embed_call"}
                               \/ outcomes # <<>>)

\* the wait before provider call k + 1
BackoffBefore(k) == IF k = 1 THEN 2 ELSE 4

\* C5: on rate-limit signals embed makes at most 3 provider calls, waits 2
\* before the second and 4 before the third, raises the rate-limit error only
\* when the third call is rate-limited too, and makes no call after a
\* successful one.
C5_RateLimitRetriesWithBackoff ==
    InEmbedText =>
        /\ Len(outcomes) <= 3
        /\ \A k \in 1..Len(outcomes) :
             /\ (outcomes[k] = "429" /\ k < 3) =>
                    /\ Len(sleeps) >= k
                    /\ sleeps[k] = BackoffBefore(k)
                    /\ (Len(outcomes) > k \/ pc = "embed_call")
             /\ (outcomes[k] = "429" /\ k = 3) => embRet = Err("429")
             /\ outcomes[k] = "ok" => (k = Len(outcomes) /\ embRet.st = "ok")
        /\ Len(sleeps) <= 2

\* the same, of the single-process client alone
C5_GeminiEmbedderRetries == impl = "single" => C5_RateLimitRetriesWithBackoff

\* C6: a provider error that is not a rate-limit signal is the last provider
\* call of its embed call, on whichever attempt it occurs: embed raises it,
\* and no wait follows it.
C6_OtherErrorPropagatesAtOnce ==
    \A k \in 1..Len(outcomes) :
        outcomes[k] \in {"embedding", "other"} =>
            /\ k = Len(outcomes)
            /\ embRet = Err(outcomes[k])
            /\ Len(sleeps) = k - 1
            /\ pc \in {"embed_done", "done"}

C6_Witness ==
    /\ op = "embed" /\ pc = "done"
    /\ outcomes = <<"429", "other">>
    /\ sleeps = <<2>>
    /\ result = [kind |-> "raised", error |-> "other"]

\* GeminiEmbedder.embed_text has been entered with the text in `query`
EmbedTextEntered ==
    /\ impl = "single"
    /\ (pc \in {"embed_validate", "embed_call", "embed_done"} \/ embRet # NoRet)

\* the text is empty or holds only whitespace
BlankQuery == \A k \in 1..Len(query) : query[k] \in {" ", "\t", "\n"}

C8_BatchInOrderOrAborted ==
    (op \in {"embed_batch", "embed_chunks"} /\ pc = "done") =>
        IF embRet.st = "raised"
        THEN result = [kind |-> "raised", error |-> embRet.err]
        ELSE /\ result.kind = "returned"
             /\ Len(result.value) = Len(texts)
             /\ \A k \in 1..Len(texts) :
                  IF op = "embed_batch"
                  THEN result.value[k] = ProviderVector(texts[k])
                  ELSE result.value[k] = [content |-> texts[k],
                                          embedding |-> ProviderVector(texts[k])]

C8_Witness ==
    /\ op = "embed_batch" /\ pc = "done"
    /\ result.kind = "returned"
    /\ Len(texts) = 3 /\ batch_size = 2
    /\ ProviderVector(texts[1]) # ProviderVector(texts[3])

-----------------------------------------------------------------------------
(* Claims about the chunker *)

ChunksReturned == op = "chunk" /\ pc = "done"

\* C9: every passage is at most chunk_size characters long, unless it is one
\* single sentence that is itself longer than chunk_size.
C9_PassageWithinMaxSize ==
    \A m \in 1..Len(chunks) :
        \/ Len(chunks[m]) <= chunk_size
        \/ \E k \in 1..Len(sentences) :
              chunks[m] = sentences[k] /\ Len(sentences[k]) > chunk_size

\* the last n of the words ws, one space apart
LastWords(ws, n) == Join(SubSeq(ws, Len(ws) - n + 1, Len(ws)))

StartsWith(p, prefix) ==
    Len(prefix) <= Len(p) /\ SubSeq(p, 1, Len(prefix)) = prefix

ThenSentence(suffix, sentence) ==
    IF suffix = <<>> THEN sentence ELSE suffix \o <<" ">> \o sentence

\* the words ws taken backward until the next word would exceed ov characters
LongestSuffixWithin(ws, ov) ==
    LET n == CHOOSE n \in 0..Len(ws) :
                 /\ Len(LastWords(ws, n)) <= ov
                 /\ n < Len(ws) => Len(LastWords(ws, n + 1)) > ov
    IN  LastWords(ws, n)

\* C10 as stated: with overlap configured, the passage after one closed by
\* overflow starts with the longest run of trailing words of that passage
\* that does not exceed the overlap length, followed by the first new sentence.
C10_NextStartsWithOverlapSuffix ==
    \A m \in 1..(Len(chunks) - 1) :
        overlap > 0 =>
            StartsWith(chunks[m + 1],
                       ThenSentence(LongestSuffixWithin(Split(chunks[m]), overlap),
                                    firsts[m + 1]))

\* how many of the trailing words ws the suffix may hold: it is no longer than
\* ov, the next word would reach or exceed ov, and it is exactly ov long only
\* when it is the whole passage
NearSuffixCounts(ws, ov) ==
    { n \in 0..Len(ws) :
        /\ Len(LastWords(ws, n)) <= ov
        /\ n < Len(ws) => Len(LastWords(ws, n + 1)) >= ov
        /\ Len(LastWords(ws, n)) = ov => n = Len(ws) }

\* C10 amended: with overlap configured, the passage after one closed by
\* overflow starts with a run of trailing words of that passage, taken
\* backward until the next word would reach or exceed the overlap length (a
\* run exactly as long as the overlap length only when it is the whole
\* passage), followed by the first new sentence.
C10_NextStartsWithNearOverlapSuffix ==
    \A m \in 1..(Len(chunks) - 1) :
        overlap > 0 =>
            LET ws == Split(chunks[m]) IN
            \E n \in NearSuffixCounts(ws, overlap) :
                StartsWith(chunks[m + 1], ThenSentence(LastWords(ws, n), firsts[m + 1]))

\* a passage closed by overflow, longer than the overlap, whose successor
\* carries some but not all of its words
C10_Witness ==
    /\ ChunksReturned
    /\ Len(chunks) >= 2
    /\ overlap > 0
    /\ Len(chunks[1]) > overlap
    /\ LET ws == Split(chunks[1]) IN
       \E n \in 1..(Len(ws) - 1) :
          /\ n \in NearSuffixCounts(ws, overlap)
          /\ StartsWith(chunks[2], ThenSentence(LastWords(ws, n), firsts[2]))

-----------------------------------------------------------------------------
(* Claims about chunk_text *)

ChunkTextReturned == op = "chunk_text" /\ pc = "done"

\* the words of the normalized text of a document: whitespace collapsed, the
\* characters outside the allow-list gone
NormalizedWords(d) == Split(SelectSeq(d, IsKept))

IsPrefixOf(p, s) == Len(p) <= Len(s) /\ SubSeq(s, 1, Len(p)) = p

\* the passages cs, each without some run of words it repeats from the end of
\* the passage before it (prev: the words of that passage), give the words
\* target, in order and once
RECURSIVE Reconstructs(_, _, _)
Reconstructs(cs, prev, target) ==
    IF cs = <<>> THEN target = <<>>
    ELSE LET ws == Split(cs[1]) IN
         \E n \in 0..Min(Len(ws), Len(prev)) :
            /\ SubSeq(ws, 1, n) = SubSeq(prev, Len(prev) - n + 1, Len(prev))
            /\ IsPrefixOf(SubSeq(ws, n + 1, Len(ws)), target)
            /\ Reconstructs(Tail(cs), ws, SubSeq(target, Len(ws) - n + 1, Len(target)))

\* C11: the passages of a document, in order and with their overlap prefixes
\* removed, reconstruct the normalized text of the document: nothing of it is
\* lost, repeated or reordered.
C11_PassagesReconstructDocument ==
    ChunkTextReturned => Reconstructs(chunks, <<>>, NormalizedWords(doc))

RECURSIVE WordsOfAll(_)
WordsOfAll(ss) == IF ss = <<>> THEN <<>> ELSE Split(ss[1]) \o WordsOfAll(Tail(ss))

\* C11, what the code does keep: the passages reconstruct the sentences that
\* _split_into_sentences produced, whole, once and in order.
C11_PassagesReconstructSentences ==
    ChunkTextReturned => Reconstructs(chunks, <<>>, WordsOfAll(sentences))


BlankDocument(d) == \A k \in 1..Len(d) : d[k] \in Whitespace

\* C12: chunk_text on an empty or whitespace-only document returns no passage.
C12_BlankDocumentYieldsNoPassage ==
    (ChunkTextReturned /\ BlankDocument(doc)) =>
        result = [kind |-> "returned", value |-> <<>>]

\* a document of several whitespace characters has been segmented
C12_Witness ==
    /\ ChunkTextReturned
    /\ Len(doc) >= 2 /\ BlankDocument(doc)
    /\ \E k \in 1..Len(doc) : doc[k] = "\n"
    /\ result.kind = "returned" /\ result.value = <<>>

-----------------------------------------------------------------------------
(* Claims about the store behind retrieve, and about the strategy *)

SearchReturned == op = "retrieve" /\ pc = "done" /\ searchCalls = 1

NoPassageStored(o) == backend[o] = None \/ backend[o] = <<>>

\* C13: a search on an owner without a collection, or with an empty one,
\* returns the empty result and does not raise, and retrieve on such an owner
\* returns no passage and does not raise. (A search the backend fails is not
\* this claim's case, except for an owner without a collection.)
C13_EmptyOwnerReturnsNothing ==
    (SearchReturned /\ NoPassageStored(owner)
                    /\ (backend[owner] = None \/ storeRet = "ok")) =>
        /\ result.kind = "response"
        /\ result.chunks = <<>> /\ result.total_chunks = 0

\* an owner with an empty collection was searched by the single-process
\* retriever while another owner holds passages
C13_Witness ==
    /\ SearchReturned /\ impl = "single"
    /\ backend[owner] = <<>> /\ storeRet = "ok"
    /\ \E o \in Owners : backend[o] # None /\ backend[o] # <<>>
    /\ result.kind = "response" /\ result.chunks = <<>>

\* C18: every passage retrieve returns for an owner is a record written under
\* that owner, whatever the other owners hold.
C18_PassagesBelongToOwner ==
    (op = "retrieve" /\ pc = "done" /\ result.kind = "response") =>
        \A k \in 1..Len(result.chunks) :
            /\ backend[owner] # None
            /\ \E m \in 1..Len(backend[owner]) :
                  /\ backend[owner][m].creator_id = owner
                  /\ backend[owner][m].content = result.chunks[k].content
                  /\ backend[owner][m].source = result.chunks[k].source

\* the service returned passages of one owner for a query whose nearest record
\* belongs to the other owner
C18_Witness ==
    /\ op = "retrieve" /\ pc = "done" /\ impl = "scalable"
    /\ result.kind = "response" /\ result.chunks # <<>>
    /\ \E o \in Owners \ {owner} :
          /\ backend[o] # None
          /\ \E m \in 1..Len(backend[o]) :
                Certainty(backend[o][m].embedding, embRet.vec) >= similarity_threshold

StrategySelected == op = "retrieve" /\ strategy # None

AnalysisComplex ==
    IF impl = "scalable" THEN analysis.complexity = "complex"
    ELSE InTypes(analysis, "complex")

AnalysisHowTo ==
    IF impl = "scalable" THEN analysis.intent = "how_to"
    ELSE InTypes(analysis, "how_to")

\* C19: for a query that is not short-circuited the strategy is
\* "comprehensive" when the complexity is COMPLEX, else "focused" when the
\* intent is HOW_TO, else "balanced".
C19_StrategyFromAnalysis ==
    StrategySelected =>
        strategy = IF AnalysisComplex THEN "comprehensive"
                   ELSE IF AnalysisHowTo THEN "focused"
                   ELSE "balanced"

\* C20: the strategy of every value retrieve returns is "comprehensive",
\* "focused", "balanced" or "skip".
C20_StrategyLabelKnown ==
    (op = "retrieve" /\ pc = "done" /\ result.kind = "response") =>
        result.strategy \in {"comprehensive", "focused", "balanced", "skip"}


-----------------------------------------------------------------------------
(* Claims about the store as it is written to *)

AddChunkDone == sop = "add_chunk" /\ spc = "done"

\* the id add_chunk was called with was in the owner's collection
IdWasHeld == snap # None /\ HasId(snap, ChunkRecord(sarg).id)

NoCollectionExists == \A o \in Owners : backend[o] = None

\* C14: add_chunk of a passage whose id the owner's collection holds leaves
\* exactly one record for that id, the newly written one, and the number of
\* the owner's records unchanged.
C14_UpsertReplacesById ==
    (AddChunkDone /\ IdWasHeld /\ ~sfailed) =>
        /\ sret.kind = "returned"
        /\ backend[sarg.creator_id] # None
        /\ LET docs == backend[sarg.creator_id]
               held == {k \in 1..Len(docs) : docs[k].id = ChunkRecord(sarg).id}
           IN  /\ Len(docs) = Len(snap)
               /\ Cardinality(held) = 1
               /\ \A k \in held : docs[k] = ChunkRecord(sarg)

\* C15: once reset() has returned no owner collection exists, the statistics
\* are empty and every search returns the empty result; the first add_chunk
\* after it leaves the owner's collection holding exactly the new passage.
C15_ResetEmptiesStore ==
    /\ rpc = "done" => (NoCollectionExists /\ collections = {})
    /\ (sinceReset = "fresh" /\ spc = "done"
           /\ sop \in {"get_collection_stats", "search_creator"}) =>
          sret = Returned(<<>>)
    /\ (sinceReset = "one_add" /\ AddChunkDone /\ ~sfailed) =>
          /\ sret = Returned(None)
          /\ collections = {sarg.creator_id}
          /\ backend = [o \in Owners |->
                           IF o = sarg.creator_id THEN <<ChunkRecord(sarg)>>
                           ELSE None]

\* the same for a store whose backend has not failed: this is what reset and
\* add_chunk do when every backend call answers
C15_ResetEmptiesStoreUnlessFailed ==
    ~failed => C15_ResetEmptiesStore

\* C16: a reset() or add_chunk during which a backend call failed raises to
\* its caller.
C16_BackendFailureRaises ==
    /\ (rpc = "done" /\ rfailed) => rret.kind = "raised"
    /\ (AddChunkDone /\ sfailed) => sret.kind = "raised"

Quiescent == spc \in {"idle", "done"} /\ rpc \in {"idle", "done"}

\* C17: whenever no call is in progress the store is as some serial order of
\* the calls leaves it: the map references exactly the collections the
\* backend holds. (A serial order leaves it so as long as no backend call
\* fails.)
C17_MapMatchesBackend ==
    (Quiescent /\ ~failed) =>
        collections = {o \in Owners : backend[o] # None}


-----------------------------------------------------------------------------
(* Claims about query classification *)

HeuristicReturned == cop \in {"fallback", "simple"} /\ cpc = "done"

ClausePunctuation == {",", ";", ".", "!", "?", ":", "-"}

\* the query is made of greeting tokens only, punctuation aside
IsBareGreeting(q) ==
    LET IsSubstance(c) == c \notin ClausePunctuation
        ws == Split(SelectSeq(Lower(q), IsSubstance))
    IN  ws # <<>> /\ \A k \in 1..Len(ws) : ws[k] \in greetings

\* C22: the greeting flag is set only for a query that consists of greeting
\* tokens and nothing else of substance.
C22_GreetingOnlyForBareGreeting ==
    (HeuristicReturned /\ cret.value.is_greeting) => IsBareGreeting(cquery)

\* the complexity label of what a classifier returned
ComplexityReturned ==
    /\ cop \in {"fallback", "determine_complexity", "single"} /\ cpc = "done"

ComplexityLabel ==
    CASE cop = "fallback" -> cret.value.complexity
      [] cop = "determine_complexity" -> cret.value
      [] cop = "single" -> cret.value[Len(cret.value)]

\* more than one question mark, conjunction or clause separator, or more
\* than 20 words
ClaimedComplex(q) ==
    LET ql == Lower(q)
    IN  \/ CountChars(ql, {"?"}) > 1
        \/ CountWord(ql, W_and) + CountWord(ql, W_aur) > 1
        \/ CountChars(ql, {",", ";"}) > 1
        \/ Len(Split(ql)) > 20

\* C23: the complexity is "complex" exactly when the query has more than one
\* question mark, more than one conjunction, more than one clause separator
\* or more than 20 words, and "simple" in every other case.
C23_ComplexityFromCounts ==
    ComplexityReturned =>
        ComplexityLabel = IF ClaimedComplex(cquery) THEN "complex" ELSE "simple"

\* C24: analyze_query never raises, and when the call of the model fails
\* (exception, timeout, malformed answer, unknown enum value) it returns the
\* analysis the heuristics compute for the same query.
C24_ModelFailureFallsBack ==
    (cop = "analyze_query" /\ cpc = "done") =>
        /\ cret.kind = "returned"
        /\ cmodel \in ModelFailures =>
              cret.value = FallbackAnalysis(cquery)

\* the model answered with an unknown enum value for a query the heuristics
\* flag, so that the heuristic analysis is not the default one
C24_Witness ==
    /\ cop = "analyze_query" /\ cpc = "done" /\ cmodel = "unknown_enum"
    /\ cret.kind = "returned" /\ cret.value.is_inappropriate
    /\ cret.value.intent = "inappropriate"
    /\ cret.value # DefaultAnalysis


-----------------------------------------------------------------------------
(* Claims about the retriever's own state *)

\* C25: no step of a retrieve call changes a field of the retriever: the
\* time of the last query, which is the retriever's only field that is not a
\* collaborator or a constant, is after every step of the call what it was
\* before it.
C25_RetrieveKeepsFields ==
    [][op' = "retrieve" => time_since_last_query' = time_since_last_query]_vars


-----------------------------------------------------------------------------
(* Claims about ingestion *)

Records(o) == IF backend[o] = None THEN <<>> ELSE backend[o]

\* the chunks of the readable files of a list, in order; k files precede it
RECURSIVE ReadableChunks(_, _)
ReadableChunks(fs, k) ==
    IF fs = <<>> THEN <<>>
    ELSE (IF Head(fs).readable
          THEN ItemChunks([source |-> k, chunks |-> Head(fs).chunks])
          ELSE <<>>) \o ReadableChunks(Tail(fs), k + 1)

Attempted == [i \in 1..Len(attempts) |-> attempts[i].arg]

RECURSIVE SucceededRecords(_)
SucceededRecords(as) ==
    IF as = <<>> THEN <<>>
    ELSE (IF Head(as).ok THEN <<ChunkRecord(Head(as).arg)>> ELSE <<>>)
         \o SucceededRecords(Tail(as))

IngestOver == ipc \in {"stats", "done"} /\ rpc = "done" /\ ~rfailed

\* C26: when build_vector_database has run on a store that reset() emptied,
\* every chunk of every file that could be read has been tried, in order,
\* whichever files could not be read and whichever chunks failed before it,
\* and the store holds exactly the passages whose embed_text and add_chunk
\* both succeeded.
C26_StoreHoldsSucceededPassages ==
    IngestOver =>
        /\ Attempted = ReadableChunks(content_files, 0)
        /\ Records(IngestOwner) = SucceededRecords(attempts)
        /\ \A o \in Owners \ {IngestOwner} : backend[o] = None

\* an ingestion whose first file could not be read, and in whose second
\* file the first chunk failed and the chunk after it was stored
C26_Witness ==
    /\ IngestOver /\ ipc = "done" /\ iret = Returned(TRUE)
    /\ Len(content_files) = 2 /\ ~content_files[1].readable
    /\ Len(attempts) = 2 /\ ~attempts[1].ok /\ attempts[2].ok
    /\ Records(IngestOwner) = <<ChunkRecord(attempts[2].arg)>>

-----------------------------------------------------------------------------
(* Claims about the singleton constructors *)

\* times the body of __init__ was entered, on the objects 1..n together
RECURSIVE BodiesRun(_)
BodiesRun(n) == IF n = 0 THEN 0 ELSE bodies[n] + BodiesRun(n - 1)

\* C27: whatever the interleaving of the threads that call cls(), at most one
\* object of the class is ever made and the body of __init__ is entered at
\* most once.
C27_OneInstanceOneInit ==
    /\ created <= 1
    /\ BodiesRun(MaxConstructorCalls) <= 1

-----------------------------------------------------------------------------
(* Claims about the spacing of retrieve_context calls *)

\* C28: any two retrieve_context calls on the one instance go on to their
\* work at least min_query_interval seconds apart, also when two threads
\* make them at the same time.
C28_CallsSpacedByInterval ==
    \A i, j \in 1..Len(work_starts) :
        i < j => work_starts[j] - work_starts[i] >= min_query_interval

-----------------------------------------------------------------------------
(* Claims about the circuit breaker *)

\* failure_threshold failures or more have been recorded since the last
\* success, the last of them no longer than recovery_timeout ago
StreakWithinTimeout ==
    /\ streak >= failure_threshold
    /\ gateway_time - last_failure_time <= recovery_timeout

BreakerSafe ==
    /\ StreakWithinTimeout => ~IsAvailable
    /\ state = "closed" => failure_count < failure_threshold

FailureRecorded == failure_count' = failure_count + 1

\* C29: while failure_threshold failures have been recorded with no success
\* since and the last of them is not older than recovery_timeout,
\* is_available answers False; a closed circuit has fewer than
\* failure_threshold failures counted; and a failure recorded while the
\* circuit is half-open opens it again.
C29_BreakerOpensAndRecovers ==
    /\ []BreakerSafe
    /\ [][(state = "half-open" /\ FailureRecorded) => state' = "open"]_vars

\* the circuit opened, the timeout passed and it went half-open, a failure
\* was recorded and it is open again and refuses
C29_Witness ==
    /\ reopened /\ state = "open" /\ StreakWithinTimeout /\ ~IsAvailable
    /\ failure_count > failure_threshold

-----------------------------------------------------------------------------
(* Claims about the rate limiter *)

\* C30: whatever the interleaving of the check_rate_limit calls for one key,
\* with Redis answering every command, the calls answered as allowed within
\* the window are never more than the configured number.
C30_AllowedWithinLimit == allowed <= max_requests

====
